---- MODULE Spec2Model ----
(***************************************************************************)
(* Model of the data-access layer of the insurance dashboard:              *)
(*   - financialDataService.js: the localStorage cache, the pending-       *)
(*     request map, fetchCompanyFinancials, fetchMarketData and            *)
(*     calculateInsuranceMetrics;                                          *)
(*   - enhancedDataService.js: the in-memory TTL cache cacheUtils;         *)
(*   - dataValidationService.js: validateCompanyData;                      *)
(*   - the benchmark service (part_002), the useAIInsights hook (part_005) *)
(*     and the Dashboard component (part_006).                             *)
(* JavaScript runs each synchronous stretch of a handler to completion,    *)
(* so one action is one stretch between two suspension points (await).     *)
(***************************************************************************)
EXTENDS Integers, Sequences, FiniteSets, TLC

\* ------------------------------------------------------------------------
\* Program constants
\* ------------------------------------------------------------------------
CACHE_DURATION == 60 * 60 * 1000
MAX_CACHE_SIZE == 50
\* cacheUtils.set cleans up when cache.size > 100
MAX_ENTRIES == 100

\* ------------------------------------------------------------------------
\* Bounds of the model
\* ------------------------------------------------------------------------
MaxCalls == 3
MaxTicks == 2
\* Math.random() is drawn from the multiples of 1 / RandDen in [0, 1)
RandDen == 40
\* entries the in-memory cache holds in its warmed-up initial state
FillCount == 100
\* fetchMultipleCompanyFinancials is called with at most MaxBatch tickers
MaxBatch == 3
\* loadInsights calls that reach generateInsightsSummary
MaxLoads == 3
\* loadCompanyData calls of one Dashboard
MaxDashLoads == 3
\* periods the upstream returns for one company
MaxPeriods == 5

Tickers == {"TRV"}
Kinds == {"financials", "market"}
\* cache keys `financials_${ticker}` and `market_${ticker}`
Keys == Kinds \X Tickers
CacheKey(kind, ticker) == <<kind, ticker>>

Pids == 1..(MaxCalls + 1)
NoPromise == 0
NoEntry == [data |-> 0, timestamp |-> -1]

\* clock advances: one millisecond, just short of the cache duration
TickSteps == {1, CACHE_DURATION - 1}

VARIABLES
    now,              \* Date.now()
    ticks,            \* number of clock advances so far
    localStorage,     \* key -> {data, timestamp} JSON entry, or NoEntry
    pendingRequests,  \* key -> promise registered in the Map, or NoPromise
    promises,         \* pid -> the request promise and its async body
    calls,            \* the calls made so far and what each caller holds
    cache,            \* the Map behind cacheUtils: key -> {value, expiry} or NoItem
    last,             \* the latest cacheUtils operation and what it returned
    input,            \* the financialData record given to calculateInsuranceMetrics
    rand,             \* the value Math.random() returns, as rand / RandDen
    metrics,          \* the record calculateInsuranceMetrics returned, or NoMetrics
    request,          \* the arguments of validateCompanyData
    run,              \* validateCompanyData: position, locals, report, lookup cache
    benchInput,       \* the arguments of getBenchmarkAnalysis
    analysis,         \* the analysis getBenchmarkAnalysis returned, or NoAnalysis
    ranks,            \* calculateIndustryPercentile of one value for each size class
    batch,            \* fetchMultipleCompanyFinancials: tickers, per-ticker fetches, result
    hook,             \* useAIInsights: props, state and the calls in flight
    dash,             \* Dashboard: state and the loads in flight
    storage,          \* localStorage with room for more than MAX_CACHE_SIZE keys
    fetched           \* the result object fetchCompanyFinancials builds

fetchVars == <<localStorage, pendingRequests, promises, calls>>
cacheVars == <<cache, last>>
calcVars == <<input, rand, metrics>>
validateVars == <<request, run>>
benchVars == <<benchInput, analysis, ranks>>
appVars == <<batch, hook, dash, storage, fetched>>
vars == <<now, ticks, localStorage, pendingRequests, promises, calls, cache, last,
          input, rand, metrics, request, run, benchInput, analysis, ranks,
          batch, hook, dash, storage, fetched>>

\* ------------------------------------------------------------------------
\* cache (localStorage) of financialDataService.js
\* ------------------------------------------------------------------------
\* an entry aged exactly CACHE_DURATION still counts as valid
CacheValid_Inclusive(t, timestamp) == t - timestamp <= CACHE_DURATION

\* Date.now() - timestamp < CACHE_DURATION
CacheValid(t, timestamp) == t - timestamp < CACHE_DURATION

\* cache.get: the data, or null (0) after removing an expired entry
CacheGetData(ls, key, t) ==
    IF ls[key] = NoEntry THEN 0
    ELSE IF CacheValid(t, ls[key].timestamp) THEN ls[key].data ELSE 0

CacheGetStore(ls, key, t) ==
    IF ls[key] = NoEntry THEN ls
    ELSE IF CacheValid(t, ls[key].timestamp) THEN ls
         ELSE [ls EXCEPT ![key] = NoEntry]

StoredKeys(ls) == {k \in DOMAIN ls : ls[k] # NoEntry}

\* first pass of cache.cleanup: drop entries with now - timestamp >= CACHE_DURATION
RemoveExpired(ls, t) ==
    [k \in DOMAIN ls |->
        IF ls[k] # NoEntry /\ t - ls[k].timestamp >= CACHE_DURATION
        THEN NoEntry ELSE ls[k]]

\* second pass of cache.cleanup: drop the n oldest entries; the order among
\* equal timestamps is the enumeration order of localStorage, which the
\* code does not control, hence a set of possible stores
RECURSIVE RemoveOldest(_, _)
RemoveOldest(ls, n) ==
    IF n <= 0 \/ StoredKeys(ls) = {} THEN {ls}
    ELSE LET oldest == {k \in StoredKeys(ls) :
                          \A j \in StoredKeys(ls) : ls[k].timestamp <= ls[j].timestamp}
         IN UNION {RemoveOldest([ls EXCEPT ![k] = NoEntry], n - 1) : k \in oldest}

CacheCleanup(ls, t) ==
    LET kept == RemoveExpired(ls, t)
        size == Cardinality(StoredKeys(kept))
    IN IF size > MAX_CACHE_SIZE THEN RemoveOldest(kept, size - MAX_CACHE_SIZE)
       ELSE {kept}

\* cache.set: cleanup, then setItem; when setItem throws (quota) cleanup
\* again and retry once, and give up silently when the retry throws too
CacheSet(ls, key, data, t, stored) ==
    {IF stored THEN [c EXCEPT ![key] = [data |-> data, timestamp |-> t]] ELSE c :
        c \in CacheCleanup(ls, t)}

\* ------------------------------------------------------------------------
\* pendingRequests (Map) of financialDataService.js
\* ------------------------------------------------------------------------
\* the pending check is skipped
PendingHas_Never(pr, key) == FALSE

PendingHas(pr, key) == pr[key] # NoPromise
PendingGet(pr, key) == pr[key]

\* the request promise is never stored in the Map
PendingSet_Dropped(pr, key, pid) == pr

PendingSet(pr, key, pid) == [pr EXCEPT ![key] = pid]
PendingDelete(pr, key) == [pr EXCEPT ![key] = NoPromise]

\* ------------------------------------------------------------------------
\* promises
\* ------------------------------------------------------------------------
Unused == [key |-> <<"", "">>, stage |-> "unused", err |-> "", at |-> -1]
InFlightStages == {"awaitFetch", "awaitJson"}
Settled == {"fulfilled", "rejected"}

UsedPids == {p \in Pids : promises[p].stage # "unused"}
NextPid == Cardinality(UsedPids) + 1

\* upstream requests of a key that have been sent and not yet answered
InFlight(key) ==
    {p \in Pids : promises[p].key = key /\ promises[p].stage \in InFlightStages}

\* what a caller holding promise pid observes
Outcome(pid) ==
    IF promises[pid].stage = "fulfilled" THEN <<"value", pid>>
    ELSE IF promises[pid].stage = "rejected" THEN <<"error", pid>>
    ELSE <<"pending", 0>>

\* ------------------------------------------------------------------------
\* cacheUtils (Map) of enhancedDataService.js
\* ------------------------------------------------------------------------
MemKeys == 1..(FillCount + 1)
\* the keys the operations of the model are applied to: one entry of the
\* warmed-up store and one key beyond it
HotKeys == {1, FillCount + 1}
Values == {"a", "b"}
Ttls == {0, CACHE_DURATION}
Null == "null"
NoItem == [value |-> Null, expiry |-> -1]
NoOp == [op |-> "none", key |-> 0, arg |-> << >>, result |-> Null]

EmptyCache == [k \in MemKeys |-> NoItem]
\* the Map after FillCount results were cached at time 0, the odd keys with
\* a ttl of one millisecond and the even keys with the default ttl
WarmCache ==
    [k \in MemKeys |->
        IF k <= FillCount
        THEN [value |-> "a", expiry |-> IF k % 2 = 1 THEN 1 ELSE CACHE_DURATION]
        ELSE NoItem]

MemSize(m) == Cardinality({k \in DOMAIN m : m[k] # NoItem})

\* the size test that triggers the cleanup pass also at the maximum itself
Oversize_AtMax(n) == n >= MAX_ENTRIES

\* cache.size > 100
Oversize(n) == n > MAX_ENTRIES

\* v.expiry < now
Passed(expiry, t) == expiry < t

\* an entry counts as expired as soon as the clock reaches its expiry
Expired_AtExpiry(expiry, t) == t >= expiry

\* Date.now() > item.expiry
Expired(expiry, t) == t > expiry

\* cacheUtils.set(key, value, ttl)
MemSet(m, key, value, ttl, t) ==
    LET put == [m EXCEPT ![key] = [value |-> value, expiry |-> t + ttl]]
    IN IF Oversize(MemSize(put))
       THEN [k \in DOMAIN put |->
                IF put[k] # NoItem /\ Passed(put[k].expiry, t) THEN NoItem ELSE put[k]]
       ELSE put

\* cacheUtils.get(key): the returned value
MemGetResult(m, key, t) ==
    IF m[key] = NoItem THEN Null
    ELSE IF Expired(m[key].expiry, t) THEN Null
    ELSE m[key].value

\* cacheUtils.get(key): the Map afterwards
MemGetStore(m, key, t) ==
    IF m[key] # NoItem /\ Expired(m[key].expiry, t) THEN [m EXCEPT ![key] = NoItem]
    ELSE m

\* ------------------------------------------------------------------------
\* Numbers of calculateInsuranceMetrics: exact fractions n / d with d > 0;
\* d = 0 stands for the values a division by zero yields (n > 0 Infinity,
\* n < 0 -Infinity, n = 0 NaN)
\* ------------------------------------------------------------------------
Abs(i) == IF i < 0 THEN -i ELSE i

RECURSIVE GCD(_, _)
GCD(a, b) == IF b = 0 THEN a ELSE GCD(b, a % b)

Sign(i) == IF i > 0 THEN 1 ELSE IF i < 0 THEN -1 ELSE 0

Rat(n, d) ==
    IF d = 0 THEN [n |-> Sign(n), d |-> 0]
    ELSE LET g == GCD(Abs(n), Abs(d))
             s == IF d < 0 THEN -1 ELSE 1
         IN [n |-> (s * n) \div g, d |-> (s * d) \div g]

Num(i) == [n |-> i, d |-> 1]
IsFinite(x) == x.d # 0
NaN == [n |-> 0, d |-> 0]

Plus(x, y) ==
    IF IsFinite(x) /\ IsFinite(y) THEN Rat(x.n * y.d + y.n * x.d, x.d * y.d)
    ELSE IF IsFinite(x) THEN y
    ELSE IF IsFinite(y) THEN x
    ELSE IF x = y THEN x ELSE NaN
Neg(x) == [n |-> -x.n, d |-> x.d]
Minus(x, y) == Plus(x, Neg(y))
Times(x, y) ==
    IF IsFinite(x) /\ IsFinite(y) THEN Rat(x.n * y.n, x.d * y.d)
    ELSE [n |-> Sign(x.n) * Sign(y.n), d |-> 0]
\* x / y as JavaScript divides: a zero divisor gives NaN or an infinity
Divide(x, y) ==
    IF IsFinite(x) /\ IsFinite(y) THEN Rat(x.n * y.d, x.d * y.n)
    ELSE IF IsFinite(y) THEN [n |-> x.n * (IF y.n < 0 THEN -1 ELSE 1), d |-> 0]
    ELSE IF IsFinite(x) THEN Num(0)
    ELSE NaN
\* x < y; every comparison with NaN is false
Less(x, y) ==
    IF x = NaN \/ y = NaN THEN FALSE
    ELSE IF IsFinite(x) /\ IsFinite(y) THEN x.n * y.d < y.n * x.d
    ELSE IF IsFinite(x) THEN y.n > 0
    ELSE IF IsFinite(y) THEN x.n < 0
    ELSE x.n < y.n
Greater(x, y) == Less(y, x)
LessEq(x, y) == x # NaN /\ y # NaN /\ ~Less(y, x)

\* Math.max and Math.min return NaN when an argument is NaN
MathMax(x, y) == IF x = NaN \/ y = NaN THEN NaN ELSE IF Less(x, y) THEN y ELSE x
MathMin(x, y) == IF x = NaN \/ y = NaN THEN NaN ELSE IF Less(y, x) THEN y ELSE x

\* Math.round: the nearest integer, halves towards +Infinity
MathRound(x) == IF IsFinite(x) THEN Num((2 * x.n + x.d) \div (2 * x.d)) ELSE x

\* Math.round(x) / 10: the factor of ten is lost
Round1_Unscaled(x) == Divide(MathRound(x), Num(10))

\* Math.round(x * 10) / 10
Round1(x) == Divide(MathRound(Times(x, Num(10))), Num(10))
\* Math.round(x * 100) / 100
Round2(x) == Divide(MathRound(Times(x, Num(100))), Num(100))

\* ------------------------------------------------------------------------
\* calculateInsuranceMetrics of financialDataService.js
\* ------------------------------------------------------------------------
\* a field of the record: << >> when the property is absent, <<v>> otherwise
Absent == << >>
\* destructuring default: applies to an absent property only
Default(field, dflt) == IF field = Absent THEN dflt ELSE Num(field[1])

NoInput == [symbol |-> "", revenue |-> Absent, netIncome |-> Absent,
            totalAssets |-> Absent, totalStockholdersEquity |-> Absent,
            weightedAverageShsOut |-> Absent,
            sellingGeneralAndAdministrativeExpenses |-> Absent,
            totalDebt |-> Absent, operatingExpenses |-> Absent,
            investmentIncome |-> Absent, calendarYear |-> Absent, period |-> ""]
NoMetrics == [computed |-> FALSE]

\* base + Math.random() * span
Band(base, span, r) == Plus(Num(base), Times(Rat(r, RandDen), Num(span)))

\* the upper clamp of the expense ratio is missing
ClampExpense_NoCeiling(base) == MathMax(base, Num(15))

\* the lower clamp of the expense ratio is missing
ClampExpense_NoFloor(base) == MathMin(base, Num(35))

\* Math.min(Math.max(baseExpenseRatio, 15), 35)
ClampExpense(base) == MathMin(MathMax(base, Num(15)), Num(35))

\* the company table is skipped: every record takes a profitability tier
EstimatedCombinedRatio_TiersOnly(company, profitMargin, r) ==
    IF Greater(profitMargin, Num(10)) THEN Band(90, 8, r)
    ELSE IF Greater(profitMargin, Num(5)) THEN Band(95, 8, r)
    ELSE IF Greater(profitMargin, Num(0)) THEN Band(98, 10, r)
    ELSE Band(105, 15, r)

\* the company table, then the profitability tiers
EstimatedCombinedRatio(company, profitMargin, r) ==
    IF company = "PGR" THEN Band(92, 6, r)
    ELSE IF company = "TRV" THEN Band(95, 6, r)
    ELSE IF company = "ALL" THEN Band(96, 8, r)
    ELSE IF company = "CB" THEN Band(88, 7, r)
    ELSE IF company = "AIG" THEN Band(98, 8, r)
    ELSE IF Greater(profitMargin, Num(10)) THEN Band(90, 8, r)
    ELSE IF Greater(profitMargin, Num(5)) THEN Band(95, 8, r)
    ELSE IF Greater(profitMargin, Num(0)) THEN Band(98, 10, r)
    ELSE Band(105, 15, r)

\* the operands of the subtraction are swapped and the floor is lost
LossRatio_Swapped(estimated, expense) == Minus(expense, estimated)

\* Math.max(50, estimatedCombinedRatio - expenseRatio)
LossRatio(estimated, expense) == MathMax(Num(50), Minus(estimated, expense))

CalculateInsuranceMetrics(fd, r) ==
    LET revenue == Default(fd.revenue, Num(0))
        netIncome == Default(fd.netIncome, Num(0))
        totalAssets == Default(fd.totalAssets, Num(0))
        totalStockholdersEquity == Default(fd.totalStockholdersEquity, Num(0))
        weightedAverageShsOut == Default(fd.weightedAverageShsOut, Num(1))
        sga == Default(fd.sellingGeneralAndAdministrativeExpenses, Num(0))
        totalDebt == Default(fd.totalDebt, Num(0))
        operatingExpenses == Default(fd.operatingExpenses, sga)
        investmentIncome == Default(fd.investmentIncome, Num(0))
        hundred == Num(100)
        profitMargin == IF Greater(revenue, Num(0))
                        THEN Times(Divide(netIncome, revenue), hundred) ELSE Num(0)
        roe == IF Greater(totalStockholdersEquity, Num(0))
               THEN Times(Divide(netIncome, totalStockholdersEquity), hundred) ELSE Num(0)
        roa == IF Greater(totalAssets, Num(0))
               THEN Times(Divide(netIncome, totalAssets), hundred) ELSE Num(0)
        bookValuePerShare == IF Greater(totalStockholdersEquity, Num(0))
                             THEN Divide(totalStockholdersEquity, weightedAverageShsOut)
                             ELSE Num(0)
        debtToEquity == IF Greater(totalStockholdersEquity, Num(0))
                        THEN Times(Divide(totalDebt, totalStockholdersEquity), hundred)
                        ELSE Num(0)
        baseExpenseRatio == IF Greater(revenue, Num(0))
                            THEN Times(Divide(operatingExpenses, revenue), hundred)
                            ELSE Num(0)
        expenseRatio == ClampExpense(baseExpenseRatio)
        estimatedCombinedRatio == EstimatedCombinedRatio(fd.symbol, profitMargin, r)
        lossRatio == LossRatio(estimatedCombinedRatio, expenseRatio)
        combinedRatio == Plus(lossRatio, expenseRatio)
        underwritingProfitMargin == Minus(hundred, combinedRatio)
        tangibleBookValue == bookValuePerShare
        \* investmentIncome || netIncome * 0.3
        income == IF investmentIncome # Num(0) THEN investmentIncome
                  ELSE Times(netIncome, Rat(3, 10))
        investmentYield == IF Greater(totalAssets, Num(0))
                           THEN Times(Divide(income, totalAssets), hundred)
                           ELSE Rat(25, 10)
    IN [computed |-> TRUE,
        revenue |-> revenue,
        netIncome |-> netIncome,
        totalAssets |-> totalAssets,
        totalEquity |-> totalStockholdersEquity,
        sharesOutstanding |-> weightedAverageShsOut,
        profitMargin |-> Round1(profitMargin),
        roe |-> Round1(roe),
        roa |-> Round1(roa),
        bookValuePerShare |-> Round2(bookValuePerShare),
        tangibleBookValue |-> Round2(tangibleBookValue),
        debtToEquity |-> Round1(debtToEquity),
        expenseRatio |-> Round1(expenseRatio),
        lossRatio |-> Round1(lossRatio),
        combinedRatio |-> Round1(combinedRatio),
        underwritingProfitMargin |-> Round1(underwritingProfitMargin),
        investmentYield |-> Round1(investmentYield),
        floatPerShare |-> Round2(Divide(Times(totalAssets, Rat(7, 10)), weightedAverageShsOut)),
        reserveRatio |-> Round2(Divide(Times(totalAssets, Rat(6, 10)), revenue)),
        year |-> fd.calendarYear,
        period |-> fd.period,
        symbol |-> fd.symbol]

\* ------------------------------------------------------------------------
\* dataValidationService.js: validateMetric, calculatePercentile and the
\* steps of validateCompanyData
\* ------------------------------------------------------------------------
Range(lo, hi) == [min |-> lo, max |-> hi]

INDUSTRY_BENCHMARKS ==
    [combinedRatio |-> [excellent |-> Range(85, 95), good |-> Range(95, 100),
                        fair |-> Range(100, 105), poor |-> Range(105, 115),
                        critical |-> Range(115, 130)],
     roe |-> [excellent |-> Range(15, 25), good |-> Range(10, 15),
              fair |-> Range(7, 10), poor |-> Range(3, 7),
              critical |-> Range(-5, 3)],
     lossRatio |-> [excellent |-> Range(55, 65), good |-> Range(65, 75),
                    fair |-> Range(75, 85), poor |-> Range(85, 95),
                    critical |-> Range(95, 110)],
     expenseRatio |-> [excellent |-> Range(20, 25), good |-> Range(25, 30),
                       fair |-> Range(30, 35), poor |-> Range(35, 40),
                       critical |-> Range(40, 50)]]

\* Object.entries(benchmarks): the ratings in insertion order
Ratings == <<"excellent", "good", "fair", "poor", "critical">>

\* value >= range.min && value <= range.max
InRange(value, range) == LessEq(Num(range.min), value) /\ LessEq(value, Num(range.max))

\* if (value <= benchmarks.excellent.max) return 90; ... return 10
CalculatePercentile(metricName, value) ==
    IF metricName \notin DOMAIN INDUSTRY_BENCHMARKS THEN 50
    ELSE LET benchmarks == INDUSTRY_BENCHMARKS[metricName]
         IN IF LessEq(value, Num(benchmarks.excellent.max)) THEN 90
            ELSE IF LessEq(value, Num(benchmarks.good.max)) THEN 75
            ELSE IF LessEq(value, Num(benchmarks.fair.max)) THEN 50
            ELSE IF LessEq(value, Num(benchmarks.poor.max)) THEN 25
            ELSE 10

\* validateMetric for a value of type number: the first band that holds the
\* value gives the rating, no band gives 'outlier' without a percentile
ValidateMetric(metricName, value) ==
    IF metricName \notin DOMAIN INDUSTRY_BENCHMARKS
    THEN [rating |-> "unknown", percentile |-> Absent]
    ELSE LET benchmarks == INDUSTRY_BENCHMARKS[metricName]
             matching == {i \in DOMAIN Ratings : InRange(value, benchmarks[Ratings[i]])}
         IN IF matching = {}
            THEN [rating |-> "outlier", percentile |-> Absent]
            ELSE LET first == CHOOSE i \in matching : \A j \in matching : i <= j
                 IN [rating |-> Ratings[first],
                     percentile |-> <<CalculatePercentile(metricName, value)>>]

coreMetrics == <<"combinedRatio", "roe", "lossRatio", "expenseRatio">>

scoreMap == [excellent |-> 100, good |-> 80, fair |-> 60, poor |-> 40,
             critical |-> 20, outlier |-> 10]

\* scoreMap[validation.rating] || 0
ScoreOf(rating) == IF rating \in DOMAIN scoreMap THEN scoreMap[rating] ELSE 0

\* the bonus for SEC verification
SEC_BONUS == 10

NoBenchInput == [ticker |-> "", metrics |-> Absent, premiumVolume |-> Absent]
NoAnalysis == [computed |-> FALSE]
NoRanks == [computed |-> FALSE]

NoRequest == [ticker |-> "", financialData |-> Absent]

\* const validationReport = { ticker, overallScore: 0, dataQuality: 'unknown', ... }
NewReport(ticker) ==
    [ticker |-> ticker, overallScore |-> 0, dataQuality |-> "unknown",
     validations |-> << >>, warnings |-> << >>, recommendations |-> << >>,
     sources |-> << >>]

\* the cacheUtils entries the two lookups read and write
EmptyStore == [sec_filings |-> {}, fred_indicators |-> Absent]

NoRun == [pc |-> "idle", validMetricsCount |-> 0, totalScore |-> 0,
          report |-> NewReport(""), failed |-> FALSE,
          sec |-> "none", fred |-> "none", store |-> EmptyStore]

\* one pass of the loop over coreMetrics, from index i on
RECURSIVE ValidateCore(_, _, _)
ValidateCore(r, current, i) ==
    IF i > Len(coreMetrics) THEN r
    ELSE LET metricName == coreMetrics[i]
             field == current[metricName]
         IN IF field # Absent
            THEN LET validation == ValidateMetric(metricName, field[1])
                 IN ValidateCore(
                        [r EXCEPT !.report.validations =
                                      Append(@, [metric |-> metricName, value |-> field[1],
                                                 rating |-> validation.rating,
                                                 percentile |-> validation.percentile]),
                                  !.totalScore = @ + ScoreOf(validation.rating),
                                  !.validMetricsCount = @ + 1],
                        current, i + 1)
            ELSE ValidateCore(
                     [r EXCEPT !.report.warnings =
                                   Append(@, [type |-> "missing_data", message |-> metricName])],
                     current, i + 1)

\* the outer catch hands the caller the exception instead of the report
CatchValidation_Rethrow(r, message) ==
    [r EXCEPT !.pc = "rejected", !.failed = TRUE]

\* the outer catch: a validation_error warning, dataQuality 'error', return
CatchValidation(r, message) ==
    [r EXCEPT !.pc = "returned", !.failed = TRUE,
              !.report.warnings = Append(@, [type |-> "validation_error", message |-> message]),
              !.report.dataQuality = "error"]

\* the tickers of CIK_MAPPING
CIK_MAPPING == {"TRV", "AIG", "PGR", "ALL", "CB", "HIG", "CINF", "WRB", "ACGL",
                "EG", "RLI", "KMPR", "AFG"}

\* fetchSECFilings(ticker) given the cache and the reply of the SEC endpoint:
\* every failure is caught inside and returned as {error}, nothing rejects
FetchSECFilings(ticker, store, reply) ==
    IF ticker \in store.sec_filings
    THEN [rejects |-> FALSE, error |-> Absent, source |-> "cache", store |-> store]
    ELSE IF ticker \notin CIK_MAPPING
    THEN [rejects |-> FALSE, error |-> <<"CIK not found">>, source |-> "no_cik", store |-> store]
    ELSE IF reply = "ok"
    THEN [rejects |-> FALSE, error |-> Absent, source |-> "api",
          store |-> [store EXCEPT !.sec_filings = @ \cup {ticker}]]
    ELSE [rejects |-> FALSE, error |-> <<reply>>, source |-> reply, store |-> store]

\* a failed regulatory lookup leaves no trace in the report
CrossValidate_Silent(r, secData) ==
    IF ~secData.rejects /\ secData.error = Absent
    THEN [r EXCEPT !.report.sources = Append(@, [name |-> "SEC EDGAR", status |-> "verified"]),
                   !.totalScore = @ + SEC_BONUS]
    ELSE r

\* step 2 of validateCompanyData, after `await fetchSECFilings(ticker)`
CrossValidate(r, secData) ==
    IF secData.rejects
    THEN [r EXCEPT !.report.warnings = Append(@, [type |-> "sec_error", message |-> "rejected"])]
    ELSE IF secData.error = Absent
    THEN [r EXCEPT !.report.sources = Append(@, [name |-> "SEC EDGAR", status |-> "verified"]),
                   !.totalScore = @ + SEC_BONUS]
    ELSE [r EXCEPT !.report.warnings =
                       Append(@, [type |-> "sec_validation", message |-> secData.error[1]])]

\* the two series validateCompanyData asks for
SeriesIds == {"UNRATE", "FEDFUNDS"}

\* what one series request yields: a latest value, a failed HTTP status, or
\* a rejected fetch
SeriesReplies(values) ==
    {[kind |-> "value", value |-> v] : v \in values}
        \cup {[kind |-> k, value |-> 0] : k \in {"http_error", "network_error"}}

\* the indicators object built from the replies: a series with a failed
\* status contributes {seriesId, data: null, error}, whose value is undefined
\* and so passes `result.value !== null`
IndicatorsOf(replies) ==
    [id \in SeriesIds |->
        IF replies[id].kind = "value" THEN <<replies[id].value>> ELSE Absent]

\* fetchEconomicIndicators(['UNRATE', 'FEDFUNDS']) given the cache and the
\* replies: a rejected fetch is caught inside and returned as
\* {indicators: {}, error}, nothing rejects
FetchEconomicIndicators(store, replies) ==
    IF store.fred_indicators # Absent
    THEN [rejects |-> FALSE, indicators |-> store.fred_indicators, error |-> Absent,
          source |-> "cache", store |-> store]
    ELSE IF \E id \in DOMAIN replies : replies[id].kind = "network_error"
    THEN [rejects |-> FALSE, indicators |-> <<[id \in {} |-> Absent]>>,
          error |-> <<"network_error">>, source |-> "network_error", store |-> store]
    ELSE [rejects |-> FALSE, indicators |-> <<IndicatorsOf(replies)>>, error |-> Absent,
          source |-> IF \E id \in DOMAIN replies : replies[id].kind = "http_error"
                     THEN "http_error" ELSE "api",
          store |-> [store EXCEPT !.fred_indicators = <<IndicatorsOf(replies)>>]]

\* economicData.indicators.<id>?.value, 0 standing for undefined
IndicatorValue(indicators, id) ==
    IF id \in DOMAIN indicators /\ indicators[id] # Absent THEN indicators[id][1] ELSE 0

\* step 3 of validateCompanyData, after `await fetchEconomicIndicators(...)`:
\* an indicators object, even an empty one, is truthy
EconomicContext(r, economicData) ==
    IF economicData.rejects
    THEN [r EXCEPT !.report.warnings = Append(@, [type |-> "economic_data", message |-> "rejected"])]
    ELSE IF economicData.indicators = Absent THEN r
    ELSE LET indicators == economicData.indicators[1]
             unemployment == IndicatorValue(indicators, "UNRATE")
             fedRate == IndicatorValue(indicators, "FEDFUNDS")
             high == (IF unemployment > 6
                      THEN <<[type |-> "economic_context", message |-> "unemployment"]>>
                      ELSE << >>)
                     \o (IF fedRate > 4
                         THEN <<[type |-> "economic_context", message |-> "interest rates"]>>
                         ELSE << >>)
         IN [r EXCEPT !.report.sources =
                          Append(@, [name |-> "FRED Economic Data", status |-> "available"]),
                      !.report.recommendations = @ \o high]

\* the thresholds are exclusive
DataQuality_Exclusive(overallScore) ==
    IF overallScore > 85 THEN "excellent"
    ELSE IF overallScore > 70 THEN "good"
    ELSE IF overallScore > 50 THEN "fair"
    ELSE "poor"

\* the quality rating of an overall score
DataQuality(overallScore) ==
    IF overallScore >= 85 THEN "excellent"
    ELSE IF overallScore >= 70 THEN "good"
    ELSE IF overallScore >= 50 THEN "fair"
    ELSE "poor"

\* steps 4 and 5 of validateCompanyData, up to `return validationReport`
Conclude(r) ==
    LET overallScore == IF r.validMetricsCount > 0
                        THEN MathRound(Divide(Num(r.totalScore), Num(r.validMetricsCount))).n
                        ELSE r.report.overallScore
        advice == (IF Len(r.report.warnings) > 2
                   THEN <<[type |-> "data_quality", message |-> "multiple issues"]>>
                   ELSE << >>)
                  \o (IF r.validMetricsCount < Len(coreMetrics)
                      THEN <<[type |-> "completeness", message |-> "metrics missing"]>>
                      ELSE << >>)
    IN [r EXCEPT !.pc = "returned",
                 !.report.overallScore = overallScore,
                 !.report.dataQuality = DataQuality(overallScore),
                 !.report.recommendations = @ \o advice]

\* ------------------------------------------------------------------------
\* Industry benchmark service: size-based bands, calculateIndustryPercentile
\* and getBenchmarkAnalysis
\* ------------------------------------------------------------------------
Tier(lo, hi, pct) == [min |-> lo, max |-> hi, percentile |-> pct]
Tiers(e, g, a, p, c) ==
    [excellent |-> Tier(e[1], e[2], 90), good |-> Tier(g[1], g[2], 75),
     average |-> Tier(a[1], a[2], 50), poor |-> Tier(p[1], p[2], 25),
     critical |-> Tier(c[1], c[2], 10)]

INDUSTRY_BENCHMARKS_2024 ==
    [combinedRatio |->
        [large |-> Tiers(<<88, 95>>, <<95, 100>>, <<100, 105>>, <<105, 110>>, <<110, 120>>),
         medium |-> Tiers(<<90, 97>>, <<97, 102>>, <<102, 107>>, <<107, 115>>, <<115, 125>>),
         small |-> Tiers(<<92, 99>>, <<99, 105>>, <<105, 110>>, <<110, 118>>, <<118, 130>>)],
     roe |->
        [large |-> Tiers(<<15, 25>>, <<12, 15>>, <<8, 12>>, <<5, 8>>, <<0, 5>>),
         medium |-> Tiers(<<14, 22>>, <<11, 14>>, <<7, 11>>, <<4, 7>>, <<-2, 4>>),
         small |-> Tiers(<<13, 20>>, <<10, 13>>, <<6, 10>>, <<3, 6>>, <<-5, 3>>)],
     lossRatio |->
        [large |-> Tiers(<<58, 68>>, <<68, 75>>, <<75, 82>>, <<82, 90>>, <<90, 100>>),
         medium |-> Tiers(<<60, 70>>, <<70, 77>>, <<77, 85>>, <<85, 92>>, <<92, 105>>),
         small |-> Tiers(<<62, 72>>, <<72, 80>>, <<80, 88>>, <<88, 95>>, <<95, 110>>)]]

\* Object.entries(benchmarks): the ratings in insertion order
BenchRatings == <<"excellent", "good", "average", "poor", "critical">>

PEER_GROUPS ==
    [largeDiversified |-> {"TRV", "ALL", "AIG", "CB", "HIG"},
     personalLines |-> {"PGR", "GEICO", "USAA"},
     commercialLines |-> {"WRB", "ACGL", "EG", "RLI"},
     regional |-> {"CINF", "AFG", "KMPR"}]

\* getCompanySize: a falsy volume (absent, 0, NaN) gives 'medium'
GetCompanySize(premiumVolume) ==
    IF premiumVolume = Absent \/ premiumVolume[1] = Num(0) \/ premiumVolume[1] = NaN
    THEN "medium"
    ELSE IF LessEq(Num(10000), premiumVolume[1]) THEN "large"
    ELSE IF LessEq(Num(1000), premiumVolume[1]) THEN "medium"
    ELSE "small"

\* getPeerGroup: the group that lists the ticker, else largeDiversified
GetPeerGroup(ticker) ==
    IF \E g \in DOMAIN PEER_GROUPS : ticker \in PEER_GROUPS[g]
    THEN CHOOSE g \in DOMAIN PEER_GROUPS : ticker \in PEER_GROUPS[g]
    ELSE "largeDiversified"

\* the bands that hold the value, as indices of BenchRatings
BandsHolding(benchmarks, value) ==
    {i \in DOMAIN BenchRatings : InRange(value, benchmarks[BenchRatings[i]])}
FirstOf(indices) == CHOOSE i \in indices : \A j \in indices : i <= j

LowerIsBetter == {"combinedRatio", "lossRatio", "expenseRatio"}

\* lowerIsBetter is never consulted: every metric counts as higher-is-better
CalculateIndustryPercentile_HigherIsBetter(metric, value, companySize) ==
    IF metric \notin DOMAIN INDUSTRY_BENCHMARKS_2024 \/ value = Absent THEN 50
    ELSE LET benchmarks == INDUSTRY_BENCHMARKS_2024[metric][companySize]
             holding == BandsHolding(benchmarks, value[1])
         IN IF holding # {} THEN benchmarks[BenchRatings[FirstOf(holding)]].percentile
            ELSE IF Greater(value[1], Num(benchmarks.excellent.max)) THEN 95
            ELSE IF Less(value[1], Num(benchmarks.critical.min)) THEN 5
            ELSE 50

\* calculateIndustryPercentile(metric, value, companySize)
CalculateIndustryPercentile(metric, value, companySize) ==
    IF metric \notin DOMAIN INDUSTRY_BENCHMARKS_2024 \/ value = Absent THEN 50
    ELSE LET benchmarks == INDUSTRY_BENCHMARKS_2024[metric][companySize]
             holding == BandsHolding(benchmarks, value[1])
         IN IF holding # {} THEN benchmarks[BenchRatings[FirstOf(holding)]].percentile
            ELSE IF metric \in LowerIsBetter
            THEN IF Less(value[1], Num(benchmarks.excellent.min)) THEN 95
                 ELSE IF Greater(value[1], Num(benchmarks.critical.max)) THEN 5
                 ELSE 50
            ELSE IF Greater(value[1], Num(benchmarks.excellent.max)) THEN 95
                 ELSE IF Less(value[1], Num(benchmarks.critical.min)) THEN 5
                 ELSE 50

\* the rating getBenchmarkAnalysis gives a metric: `let rating = 'average'`,
\* replaced by the first band that holds the value
RatingOf(metricName, value, companySize) ==
    LET benchmarks == INDUSTRY_BENCHMARKS_2024[metricName][companySize]
        holding == BandsHolding(benchmarks, value)
    IN IF holding # {} THEN BenchRatings[FirstOf(holding)] ELSE "average"

metricsToAnalyze == <<"combinedRatio", "roe", "lossRatio">>

\* the entry of analysis.metrics for one metric, Absent when it is no number
AnalyzeMetric(current, metricName, companySize) ==
    IF current[metricName] = Absent THEN Absent
    ELSE <<[value |-> current[metricName][1],
            percentile |-> CalculateIndustryPercentile(metricName, current[metricName],
                                                       companySize),
            rating |-> RatingOf(metricName, current[metricName][1], companySize)]>>

\* the analysed metrics in order whose percentile satisfies the test
RECURSIVE Quartile(_, _, _)
Quartile(entries, i, top) ==
    IF i > Len(metricsToAnalyze) THEN << >>
    ELSE LET entry == entries[metricsToAnalyze[i]]
             listed == /\ entry # Absent
                       /\ IF top THEN entry[1].percentile >= 75
                          ELSE entry[1].percentile < 75 /\ entry[1].percentile <= 25
         IN (IF listed
             THEN <<[metric |-> metricsToAnalyze[i], percentile |-> entry[1].percentile]>>
             ELSE << >>) \o Quartile(entries, i + 1, top)

RECURSIVE TotalPercentile(_, _)
TotalPercentile(entries, i) ==
    IF i > Len(metricsToAnalyze) THEN 0
    ELSE (IF entries[metricsToAnalyze[i]] # Absent
          THEN entries[metricsToAnalyze[i]][1].percentile ELSE 0)
         + TotalPercentile(entries, i + 1)

\* avgPercentile = totalPercentile / validMetrics against 80, 60, 40, 20
OverallRating(totalPercentile, validMetrics) ==
    IF validMetrics = 0 THEN "average"
    ELSE IF totalPercentile >= 80 * validMetrics THEN "excellent"
    ELSE IF totalPercentile >= 60 * validMetrics THEN "good"
    ELSE IF totalPercentile >= 40 * validMetrics THEN "average"
    ELSE IF totalPercentile >= 20 * validMetrics THEN "poor"
    ELSE "critical"

GetBenchmarkAnalysis(ticker, current, premiumVolume) ==
    LET companySize == GetCompanySize(premiumVolume)
        entries == [m \in {metricsToAnalyze[i] : i \in DOMAIN metricsToAnalyze} |->
                       AnalyzeMetric(current, m, companySize)]
        validMetrics == Cardinality({m \in DOMAIN entries : entries[m] # Absent})
    IN [computed |-> TRUE, ticker |-> ticker, companySize |-> companySize,
        peerGroup |-> GetPeerGroup(ticker), metrics |-> entries,
        overallRating |-> OverallRating(TotalPercentile(entries, 1), validMetrics),
        strengths |-> Quartile(entries, 1, TRUE),
        weaknesses |-> Quartile(entries, 1, FALSE)]

\* ------------------------------------------------------------------------
\* fetchMultipleCompanyFinancials of financialDataService.js
\* ------------------------------------------------------------------------
BatchTickers == {"TRV", "ZZZZ_INVALID", "PGR"}
TickerLists == UNION {[1..n -> BatchTickers] : n \in 0..MaxBatch}
Requested(tickers) == {tickers[i] : i \in DOMAIN tickers}

\* the message of the error fetchCompanyFinancials rejects with:
\* `Failed to fetch data for ${ticker}: ${error.message}`
FailureMessage(ticker, cause) == <<"Failed to fetch data for", ticker, cause>>

\* what fetchCompanyFinancials resolves to: { ...result, source }
FetchResult(ticker, source) ==
    [ticker |-> ticker, source |-> <<source>>, error |-> Absent, currentMetrics |-> "metrics"]

\* the per-ticker handler is missing: a rejection reaches Promise.all
CatchFetch_Rethrow(ticker, outcome) == outcome

\* .catch(error => ({ ticker, error: error.message, currentMetrics: null }))
CatchFetch(ticker, outcome) ==
    IF outcome[1] = "error"
    THEN <<"value", [ticker |-> ticker, source |-> Absent, error |-> <<outcome[2]>>,
                     currentMetrics |-> "null"]>>
    ELSE outcome

\* the promises handed to Promise.all, one per element of tickers
Slots(tickers, fetches) ==
    [i \in DOMAIN tickers |-> CatchFetch(tickers[i], fetches[tickers[i]])]

\* Promise.all: rejects with the first rejection, resolves with the values
\* in the order of the promises once all have resolved
PromiseAll(slots) ==
    IF \E i \in DOMAIN slots : slots[i][1] = "error"
    THEN LET first == CHOOSE i \in DOMAIN slots :
                 /\ slots[i][1] = "error"
                 /\ \A j \in DOMAIN slots : slots[j][1] = "error" => i <= j
         IN <<"error", slots[first][2]>>
    ELSE IF \A i \in DOMAIN slots : slots[i][1] = "value"
    THEN <<"value", [i \in DOMAIN slots |-> slots[i][2]]>>
    ELSE <<"pending">>

\* try { return await Promise.all(promises) } catch (error) { throw new Error(...) }
AwaitAll(slots) ==
    LET all == PromiseAll(slots)
    IN IF all[1] = "error"
       THEN <<"error", <<"Failed to fetch multiple company data", all[2]>>>>
       ELSE all

NoBatch ==
    [tickers |-> << >>, fetches |-> [t \in BatchTickers |-> <<"idle">>],
     order |-> << >>, result |-> <<"idle">>]

\* ------------------------------------------------------------------------
\* useAIInsights (part_005)
\* ------------------------------------------------------------------------
LoadIds == 1..MaxLoads
NoLoad == [stage |-> "unused", metrics |-> "null", marketData |-> "null"]
\* the hook before its first render: the useState initial values
NoHook ==
    [mounted |-> FALSE, ticker |-> "", metrics |-> "null", marketData |-> "null",
     autoLoad |-> FALSE, insights |-> Absent, loading |-> FALSE, error |-> Absent,
     loads |-> [i \in LoadIds |-> NoLoad], settled |-> 0, reset |-> FALSE]

StartedLoads(h) == {i \in LoadIds : h.loads[i].stage # "unused"}
PendingLoads(h) == {i \in LoadIds : h.loads[i].stage = "pending"}

\* loadInsights up to its await: nothing when metrics or marketData is
\* missing, else setLoading(true), setError(null) and the call
StartLoad(h) ==
    IF h.metrics = "null" \/ h.marketData = "null" THEN h
    ELSE [h EXCEPT !.loading = TRUE, !.error = Absent,
                   !.loads[Cardinality(StartedLoads(h)) + 1] =
                       [stage |-> "pending", metrics |-> h.metrics, marketData |-> h.marketData]]

\* useEffect(() => { if (autoLoad && metrics && marketData) loadInsights() })
AutoLoadEffect(h) ==
    IF h.autoLoad /\ h.metrics # "null" /\ h.marketData # "null" THEN StartLoad(h) ELSE h

\* generateInsightsSummary rejects with `Failed to generate insights: ...`
InsightsError(id) == <<"Failed to generate insights", id>>

\* the rest of loadInsights after the await: try / catch / finally
FinishLoad(h, id, ok) ==
    IF ok
    THEN [h EXCEPT !.insights = <<id>>, !.loading = FALSE,
                   !.loads[id].stage = "resolved", !.settled = id, !.reset = FALSE]
    ELSE [h EXCEPT !.error = <<InsightsError(id)>>, !.insights = Absent, !.loading = FALSE,
                   !.loads[id].stage = "rejected", !.settled = id, !.reset = FALSE]

\* ------------------------------------------------------------------------
\* Dashboard (part_006)
\* ------------------------------------------------------------------------
DashTickers == {"BRK-B", "PGR"}
\* DEFAULT_COMPANY.ticker, the first of TOP_INSURANCE_COMPANIES
DEFAULT_TICKER == "BRK-B"
DashLoadIds == 1..MaxDashLoads
NoDashLoad == [ticker |-> "", stage |-> "unused"]
\* the component before its first effect: the useState initial values
NoDash ==
    [mounted |-> FALSE, selectedTicker |-> DEFAULT_TICKER, dashboardData |-> Absent,
     marketData |-> "null", loading |-> FALSE, error |-> Absent, dataValidation |-> Absent,
     loads |-> [i \in DashLoadIds |-> NoDashLoad]]

DashStarted(d) == {i \in DashLoadIds : d.loads[i].stage # "unused"}

\* loadCompanyData(ticker) up to its await
LoadCompanyData(d, ticker) ==
    [d EXCEPT !.loading = TRUE, !.error = Absent,
              !.loads[Cardinality(DashStarted(d)) + 1] = [ticker |-> ticker, stage |-> "fetching"]]

\* loadCompanyData after the await: the data is stored and the validation
\* started without being awaited, or the catch clears the state
LoadSettled(d, id, ok) ==
    IF ok
    THEN [d EXCEPT !.dashboardData = <<[ticker |-> d.loads[id].ticker, load |-> id]>>,
                   !.marketData = "null", !.loading = FALSE,
                   !.loads[id].stage = "validating"]
    ELSE [d EXCEPT !.error = <<FailureMessage(d.loads[id].ticker, "Failed to fetch financial data")>>,
                   !.dashboardData = Absent, !.marketData = "null",
                   !.dataValidation = Absent, !.loading = FALSE,
                   !.loads[id].stage = "failed"]

\* validateDataQuality after its await: the report, or the error record
ValidationSettled(d, id, ok) ==
    [d EXCEPT !.dataValidation = <<[ticker |-> d.loads[id].ticker, load |-> id,
                                    dataQuality |-> IF ok THEN "checked" ELSE "error"]>>,
              !.loads[id].stage = "done"]

\* ------------------------------------------------------------------------
\* localStorage filled by many cache.set calls (financialDataService.js)
\* ------------------------------------------------------------------------
\* prefixed keys, two more than the cache is meant to hold
StorageKeys == 1..(MAX_CACHE_SIZE + 2)
\* an empty localStorage
NoStorage == [k \in StorageKeys |-> NoEntry]
\* the key of the next cache.set call: the first key that is not stored
SetKeys(entries) ==
    LET free == StorageKeys \ StoredKeys(entries)
    IN {k \in free : \A j \in free : k <= j}

\* ------------------------------------------------------------------------
\* the result object of fetchCompanyFinancials (financialDataService.js)
\* ------------------------------------------------------------------------
NoFetched == [computed |-> FALSE]

\* the upstream lists, newest first: the i-th income statement and balance
\* sheet (i from 1) are those of the year 2025 - i
IncomeStatement(symbol, i) ==
    [symbol |-> symbol, revenue |-> <<11000 - 1000 * i>>, netIncome |-> <<1500>>,
     operatingExpenses |-> <<2600>>, calendarYear |-> <<2025 - i>>, period |-> "FY"]
BalanceSheet(i) ==
    [totalAssets |-> <<50000 + 1000 * i>>, totalStockholdersEquity |-> <<20000>>,
     weightedAverageShsOut |-> <<100>>, totalDebt |-> <<5000>>]
NoBalanceSheet ==
    [totalAssets |-> Absent, totalStockholdersEquity |-> Absent,
     weightedAverageShsOut |-> Absent, totalDebt |-> Absent]

\* { ...income, ...balance }
Combined(income, balance) ==
    [symbol |-> income.symbol, revenue |-> income.revenue, netIncome |-> income.netIncome,
     totalAssets |-> balance.totalAssets,
     totalStockholdersEquity |-> balance.totalStockholdersEquity,
     weightedAverageShsOut |-> balance.weightedAverageShsOut,
     sellingGeneralAndAdministrativeExpenses |-> Absent,
     totalDebt |-> balance.totalDebt, operatingExpenses |-> income.operatingExpenses,
     investmentIncome |-> Absent, calendarYear |-> income.calendarYear,
     period |-> income.period]

\* Array.prototype.reverse
Reverse(seq) == [i \in DOMAIN seq |-> seq[Len(seq) + 1 - i]]

\* incomeData.slice(0, 4).map(...).reverse(): the metrics of each period,
\* each computed by a calculateInsuranceMetrics call of its own (draws[i + 1]
\* is its Math.random()); `period` is overwritten by the spread metrics
HistoricalMetrics(incomeData, balanceData, draws) ==
    LET kept == SubSeq(incomeData, 1, IF Len(incomeData) < 4 THEN Len(incomeData) ELSE 4)
    IN Reverse([i \in DOMAIN kept |->
                   CalculateInsuranceMetrics(
                       Combined(kept[i], IF i <= Len(balanceData) THEN balanceData[i]
                                         ELSE NoBalanceSheet),
                       draws[i + 1])])

\* the result built after the checks passed; draws[1] is the Math.random()
\* of the calculateInsuranceMetrics call for currentMetrics
BuildResult(ticker, incomeData, balanceData, draws) ==
    [computed |-> TRUE, ticker |-> ticker,
     currentMetrics |-> CalculateInsuranceMetrics(Combined(incomeData[1], balanceData[1]), draws[1]),
     historicalMetrics |-> HistoricalMetrics(incomeData, balanceData, draws)]


TypeOK ==
    /\ now \in Nat
    /\ ticks \in 0..(MaxTicks + 1)
    /\ DOMAIN localStorage = Keys
    /\ DOMAIN pendingRequests = Keys
    /\ DOMAIN promises = Pids
    /\ Len(calls) <= MaxCalls + 1

Init ==
    /\ now = 0
    /\ ticks = 0
    /\ localStorage = [k \in Keys |-> NoEntry]
    /\ pendingRequests = [k \in Keys |-> NoPromise]
    /\ promises = [p \in Pids |-> Unused]
    /\ calls = << >>
    /\ cache = EmptyCache
    /\ last = NoOp
    /\ input = NoInput
    /\ rand = 0
    /\ metrics = NoMetrics
    /\ request = NoRequest
    /\ run = NoRun
    /\ benchInput = NoBenchInput
    /\ analysis = NoAnalysis
    /\ ranks = NoRanks
    /\ batch = NoBatch
    /\ hook = NoHook
    /\ dash = NoDash
    /\ storage = NoStorage
    /\ fetched = NoFetched

\* the synchronous prefix of the async request body, up to its first await:
\* fetchCompanyFinancials reaches `await Promise.all([fetch, fetch])`;
\* fetchMarketData evaluates `${FMP_BASE_URL}`, an identifier the module
\* never declares, and throws a ReferenceError before fetch is called
SyncPrefix(kind) == IF kind = "market" THEN "throws" ELSE "awaits"

\* every caller that holds promise pid observes its outcome
Deliver(cs, pid, outcome) ==
    [i \in DOMAIN cs |-> IF cs[i].pid = pid THEN [cs[i] EXCEPT !.got = outcome] ELSE cs[i]]

CallRecord(key, src, pid, data, got) ==
    [key |-> key, src |-> src, pid |-> pid, data |-> data, got |-> got,
     seen |-> InFlight(key)]

\* fetchCompanyFinancials(ticker) / fetchMarketData(ticker), up to the return
Call(kind, ticker) ==
    LET key == CacheKey(kind, ticker)
        cached == CacheGetData(localStorage, key, now)
        pid == NextPid
    IN
    /\ Len(calls) < MaxCalls
    /\ localStorage' = CacheGetStore(localStorage, key, now)
    /\ IF cached # 0
       THEN \* return { ...cached, source: 'cache' }
            /\ calls' = Append(calls, CallRecord(key, "cache", NoPromise, cached, <<"value", cached>>))
            /\ UNCHANGED <<pendingRequests, promises>>
       ELSE IF PendingHas(pendingRequests, key)
       THEN \* return pendingRequests.get(cacheKey)
            /\ calls' = Append(calls, CallRecord(key, "joined", PendingGet(pendingRequests, key), 0,
                                                 Outcome(PendingGet(pendingRequests, key))))
            /\ UNCHANGED <<pendingRequests, promises>>
       ELSE IF SyncPrefix(kind) = "throws"
       THEN \* catch and finally run before the promise is stored in the Map
            /\ promises' = [promises EXCEPT ![pid] =
                   [key |-> key, stage |-> "rejected", err |-> "reference", at |-> -1]]
            /\ pendingRequests' = PendingSet(PendingDelete(pendingRequests, key), key, pid)
            /\ calls' = Append(calls, CallRecord(key, "started", pid, 0, <<"error", pid>>))
       ELSE /\ promises' = [promises EXCEPT ![pid] =
                   [key |-> key, stage |-> "awaitFetch", err |-> "", at |-> -1]]
            /\ pendingRequests' = PendingSet(pendingRequests, key, pid)
            /\ calls' = Append(calls, CallRecord(key, "started", pid, 0, <<"pending", 0>>))
    /\ UNCHANGED <<now, ticks, cacheVars, calcVars, validateVars, benchVars, appVars>>

\* the failed request leaves its promise id in the cache as if it had data
Reject_Caching(pid, err) ==
    /\ promises' = [promises EXCEPT ![pid].stage = "rejected", ![pid].err = err]
    /\ pendingRequests' = PendingDelete(pendingRequests, promises[pid].key)
    /\ calls' = Deliver(calls, pid, <<"error", pid>>)
    /\ localStorage' = [localStorage EXCEPT ![promises[pid].key] = [data |-> pid, timestamp |-> now]]

\* catch { throw new Error(...) } finally { pendingRequests.delete(cacheKey) }
Reject(pid, err) ==
    /\ promises' = [promises EXCEPT ![pid].stage = "rejected", ![pid].err = err]
    /\ pendingRequests' = PendingDelete(pendingRequests, promises[pid].key)
    /\ calls' = Deliver(calls, pid, <<"error", pid>>)
    /\ UNCHANGED localStorage

\* the error a rejected request promise carries:
\* `Failed to fetch data for ${ticker}: ${error.message}`
RejectionMessage(pid) == FailureMessage(promises[pid].key[2], promises[pid].err)

\* the upstream answers the fetch calls: rejection, failed status, or ok
FetchErrors == {"network", "http"}
FetchSettles(pid) ==
    /\ promises[pid].stage = "awaitFetch"
    /\ \/ \E err \in FetchErrors : Reject(pid, err)
       \/ /\ promises' = [promises EXCEPT ![pid].stage = "awaitJson"]
          /\ UNCHANGED <<localStorage, pendingRequests, calls>>
    /\ UNCHANGED <<now, ticks, cacheVars, calcVars, validateVars, benchVars, appVars>>

\* the bodies are parsed: json() rejects, the payload fails a validation
\* check, or the result is built, cached and returned
PayloadErrors(kind) ==
    IF kind = "financials" THEN {"json", "empty", "revenue", "period", "metrics"}
    ELSE {"json", "empty", "symbol", "price"}

JsonSettles(pid) ==
    /\ promises[pid].stage = "awaitJson"
    /\ \/ \E err \in PayloadErrors(promises[pid].key[1]) : Reject(pid, err)
       \/ \E stored \in BOOLEAN :
          \E ls \in CacheSet(localStorage, promises[pid].key, pid, now, stored) :
             /\ localStorage' = ls
             /\ promises' = [promises EXCEPT ![pid].stage = "fulfilled", ![pid].at = now]
             /\ pendingRequests' = PendingDelete(pendingRequests, promises[pid].key)
             /\ calls' = Deliver(calls, pid, <<"value", pid>>)
    /\ UNCHANGED <<now, ticks, cacheVars, calcVars, validateVars, benchVars, appVars>>

Tick ==
    /\ ticks < MaxTicks
    /\ \E d \in TickSteps : now' = now + d
    /\ ticks' = ticks + 1
    /\ UNCHANGED <<fetchVars, cacheVars, calcVars, validateVars, benchVars, appVars>>

Next ==
    \/ \E kind \in Kinds, ticker \in Tickers : Call(kind, ticker)
    \/ \E pid \in Pids : FetchSettles(pid)
    \/ \E pid \in Pids : JsonSettles(pid)
    \/ Tick

Spec == Init /\ [][Next]_vars

\* ------------------------------------------------------------------------
\* SpecCache: the operations of cacheUtils, from the empty or the warmed-up Map
\* ------------------------------------------------------------------------
InitCache ==
    /\ now = 0
    /\ ticks = 0
    /\ localStorage = [k \in Keys |-> NoEntry]
    /\ pendingRequests = [k \in Keys |-> NoPromise]
    /\ promises = [p \in Pids |-> Unused]
    /\ calls = << >>
    /\ cache \in {EmptyCache, WarmCache}
    /\ last = NoOp
    /\ input = NoInput
    /\ rand = 0
    /\ metrics = NoMetrics
    /\ request = NoRequest
    /\ run = NoRun
    /\ benchInput = NoBenchInput
    /\ analysis = NoAnalysis
    /\ ranks = NoRanks
    /\ batch = NoBatch
    /\ hook = NoHook
    /\ dash = NoDash
    /\ storage = NoStorage
    /\ fetched = NoFetched

Set(key, value, ttl) ==
    /\ cache' = MemSet(cache, key, value, ttl, now)
    /\ last' = [op |-> "set", key |-> key, arg |-> <<value, ttl>>, result |-> Null]
    /\ UNCHANGED <<now, ticks, fetchVars, calcVars, validateVars, benchVars, appVars>>

Get(key) ==
    /\ cache' = MemGetStore(cache, key, now)
    /\ last' = [op |-> "get", key |-> key, arg |-> << >>, result |-> MemGetResult(cache, key, now)]
    /\ UNCHANGED <<now, ticks, fetchVars, calcVars, validateVars, benchVars, appVars>>

Clear ==
    /\ cache' = EmptyCache
    /\ last' = [op |-> "clear", key |-> 0, arg |-> << >>, result |-> Null]
    /\ UNCHANGED <<now, ticks, fetchVars, calcVars, validateVars, benchVars, appVars>>

CacheTick ==
    /\ ticks < MaxTicks
    /\ \E d \in TickSteps : now' = now + d
    /\ ticks' = ticks + 1
    /\ last' = [op |-> "tick", key |-> 0, arg |-> << >>, result |-> Null]
    /\ UNCHANGED <<fetchVars, cache, calcVars, validateVars, benchVars, appVars>>

NextCache ==
    \/ \E key \in HotKeys, value \in Values, ttl \in Ttls : Set(key, value, ttl)
    \/ \E key \in HotKeys : Get(key)
    \/ Clear
    \/ CacheTick

SpecCache == InitCache /\ [][NextCache]_vars

\* ------------------------------------------------------------------------
\* SpecCalc: calculateInsuranceMetrics applied to one record
\* ------------------------------------------------------------------------
Symbols == {"PGR", "TRV", "ALL", "CB", "AIG", "XYZ", ""}
Revenues == {Absent, <<0>>, <<-2000>>, <<2000>>, <<10000>>}
NetIncomes == {Absent, <<-100>>, <<150>>, <<1500>>}
OperatingExpenses == {Absent, <<-100>>, <<301>>, <<1507>>, <<5000>>}
SgaExpenses == {Absent, <<2600>>}
\* the balance-sheet half of the record: missing altogether, or reported
BalanceSheets ==
    {[totalAssets |-> Absent, totalStockholdersEquity |-> Absent,
      weightedAverageShsOut |-> Absent, totalDebt |-> Absent],
     [totalAssets |-> <<50000>>, totalStockholdersEquity |-> <<20000>>,
      weightedAverageShsOut |-> <<100>>, totalDebt |-> <<5000>>]}

FinancialRecords ==
    {[symbol |-> sy, revenue |-> rv, netIncome |-> ni,
      totalAssets |-> bs.totalAssets,
      totalStockholdersEquity |-> bs.totalStockholdersEquity,
      weightedAverageShsOut |-> bs.weightedAverageShsOut,
      sellingGeneralAndAdministrativeExpenses |-> sg,
      totalDebt |-> bs.totalDebt, operatingExpenses |-> ox,
      investmentIncome |-> Absent, calendarYear |-> <<2024>>, period |-> "FY"] :
        sy \in Symbols, rv \in Revenues, ni \in NetIncomes,
        ox \in OperatingExpenses, sg \in SgaExpenses, bs \in BalanceSheets}

InitCalc ==
    /\ now = 0
    /\ ticks = 0
    /\ localStorage = [k \in Keys |-> NoEntry]
    /\ pendingRequests = [k \in Keys |-> NoPromise]
    /\ promises = [p \in Pids |-> Unused]
    /\ calls = << >>
    /\ cache = EmptyCache
    /\ last = NoOp
    /\ input \in FinancialRecords
    /\ rand \in 0..(RandDen - 1)
    /\ metrics = NoMetrics
    /\ request = NoRequest
    /\ run = NoRun
    /\ benchInput = NoBenchInput
    /\ analysis = NoAnalysis
    /\ ranks = NoRanks
    /\ batch = NoBatch
    /\ hook = NoHook
    /\ dash = NoDash
    /\ storage = NoStorage
    /\ fetched = NoFetched

Calculate ==
    /\ metrics = NoMetrics
    /\ metrics' = CalculateInsuranceMetrics(input, rand)
    /\ UNCHANGED <<now, ticks, fetchVars, cacheVars, input, rand, validateVars, benchVars, appVars>>

NextCalc == Calculate

SpecCalc == InitCalc /\ [][NextCalc]_vars

\* ------------------------------------------------------------------------
\* SpecSheet: calculateInsuranceMetrics applied to records whose
\* balance-sheet fields and investmentIncome are absent, zero or reported
\* ------------------------------------------------------------------------
SheetAmounts(reported) == {Absent, <<0>>, <<reported>>}
SheetRecords ==
    {[symbol |-> sy, revenue |-> rv, netIncome |-> ni,
      totalAssets |-> ta, totalStockholdersEquity |-> eq,
      weightedAverageShsOut |-> sh,
      sellingGeneralAndAdministrativeExpenses |-> Absent,
      totalDebt |-> <<5000>>, operatingExpenses |-> <<2600>>,
      investmentIncome |-> ii, calendarYear |-> <<2024>>, period |-> "FY"] :
        sy \in {"TRV", "XYZ"}, rv \in SheetAmounts(10000),
        ni \in {Absent, <<-100>>, <<1500>>}, ta \in SheetAmounts(50000),
        eq \in SheetAmounts(20000), sh \in SheetAmounts(100),
        ii \in SheetAmounts(600)}

InitSheet ==
    /\ now = 0
    /\ ticks = 0
    /\ localStorage = [k \in Keys |-> NoEntry]
    /\ pendingRequests = [k \in Keys |-> NoPromise]
    /\ promises = [p \in Pids |-> Unused]
    /\ calls = << >>
    /\ cache = EmptyCache
    /\ last = NoOp
    /\ input \in SheetRecords
    /\ rand \in {0, RandDen - 1}
    /\ metrics = NoMetrics
    /\ request = NoRequest
    /\ run = NoRun
    /\ benchInput = NoBenchInput
    /\ analysis = NoAnalysis
    /\ ranks = NoRanks
    /\ batch = NoBatch
    /\ hook = NoHook
    /\ dash = NoDash
    /\ storage = NoStorage
    /\ fetched = NoFetched

SpecSheet == InitSheet /\ [][NextCalc]_vars

\* ------------------------------------------------------------------------
\* SpecValidate: one call of validateCompanyData, its two lookups settling
\* in turn with whatever the endpoints reply
\* ------------------------------------------------------------------------
ValidateTickers == {"TRV", "XYZ"}
\* metrics objects: each core metric missing or a number (NaN is a number)
CurrentMetrics ==
    {[combinedRatio |-> cr, roe |-> ro, lossRatio |-> lr, expenseRatio |-> er] :
        cr \in {Absent, <<Num(90)>>, <<Rat(955, 10)>>, <<Num(103)>>, <<Num(110)>>,
                <<Num(120)>>, <<Num(140)>>, <<NaN>>},
        ro \in {Absent, <<Rat(158, 10)>>, <<Num(5)>>},
        lr \in {Absent, <<Num(60)>>, <<Num(95)>>},
        er \in {Absent, <<Num(22)>>, <<Rat(303, 10)>>}}
\* financialData: undefined, without currentMetrics, or with them
FinancialData ==
    {Absent, <<[currentMetrics |-> Absent]>>}
        \cup {<<[currentMetrics |-> <<m>>]>> : m \in CurrentMetrics}

SecReplies == {"ok", "http_error", "network_error"}
FredReplies ==
    {[UNRATE |-> u, FEDFUNDS |-> f] :
        u \in SeriesReplies({4, 7}), f \in SeriesReplies({3, 5})}
\* the entries an earlier successful lookup may have left in the cache
Stores ==
    {[sec_filings |-> sf, fred_indicators |-> fi] :
        sf \in SUBSET (ValidateTickers \cap CIK_MAPPING),
        fi \in {Absent, <<[UNRATE |-> <<4>>, FEDFUNDS |-> <<5>>]>>}}

InitValidate ==
    /\ now = 0
    /\ ticks = 0
    /\ localStorage = [k \in Keys |-> NoEntry]
    /\ pendingRequests = [k \in Keys |-> NoPromise]
    /\ promises = [p \in Pids |-> Unused]
    /\ calls = << >>
    /\ cache = EmptyCache
    /\ last = NoOp
    /\ input = NoInput
    /\ rand = 0
    /\ metrics = NoMetrics
    /\ request = NoRequest
    /\ run \in {[NoRun EXCEPT !.store = st] : st \in Stores}
    /\ benchInput = NoBenchInput
    /\ analysis = NoAnalysis
    /\ ranks = NoRanks
    /\ batch = NoBatch
    /\ hook = NoHook
    /\ dash = NoDash
    /\ storage = NoStorage
    /\ fetched = NoFetched

\* validateCompanyData(ticker, financialData) up to `await fetchSECFilings`,
\* or to the return of the outer catch
Validate(ticker, financialData) ==
    /\ run.pc = "idle"
    /\ request' = [ticker |-> ticker, financialData |-> financialData]
    /\ LET fd == financialData
           r == [run EXCEPT !.report = NewReport(ticker)]
       IN run' = IF fd = Absent
                 THEN \* financialData.currentMetrics throws a TypeError
                      CatchValidation(r, "TypeError")
                 ELSE IF fd[1].currentMetrics = Absent
                 THEN CatchValidation(r, "No financial metrics available for validation")
                 ELSE [ValidateCore(r, fd[1].currentMetrics[1], 1) EXCEPT !.pc = "awaitSEC"]
    /\ UNCHANGED <<now, ticks, fetchVars, cacheVars, calcVars, benchVars, appVars>>

\* does fetchSECFilings reach its fetch
SecFetches == request.ticker \notin run.store.sec_filings /\ request.ticker \in CIK_MAPPING

\* fetchSECFilings settles; validateCompanyData records it and runs up to
\* `await fetchEconomicIndicators`
SecSettles(reply) ==
    /\ run.pc = "awaitSEC"
    /\ reply = "none" <=> ~SecFetches
    /\ LET secData == FetchSECFilings(request.ticker, run.store, reply)
       IN run' = [CrossValidate(run, secData) EXCEPT !.pc = "awaitFRED",
                                                     !.sec = secData.source,
                                                     !.store = secData.store]
    /\ UNCHANGED <<now, ticks, fetchVars, cacheVars, calcVars, request, benchVars, appVars>>

\* the replies a cache hit leaves unused
NoReplies == [UNRATE |-> [kind |-> "none", value |-> 0],
              FEDFUNDS |-> [kind |-> "none", value |-> 0]]

\* fetchEconomicIndicators settles; validateCompanyData records it, scores
\* the report and returns it
FredSettles(replies) ==
    /\ run.pc = "awaitFRED"
    /\ replies = NoReplies <=> run.store.fred_indicators # Absent
    /\ LET economicData == FetchEconomicIndicators(run.store, replies)
       IN run' = Conclude([EconomicContext(run, economicData)
                              EXCEPT !.fred = economicData.source,
                                     !.store = economicData.store])
    /\ UNCHANGED <<now, ticks, fetchVars, cacheVars, calcVars, request, benchVars, appVars>>

NextValidate ==
    \/ \E ticker \in ValidateTickers, financialData \in FinancialData :
          Validate(ticker, financialData)
    \/ \E reply \in SecReplies \cup {"none"} : SecSettles(reply)
    \/ \E replies \in FredReplies \cup {NoReplies} : FredSettles(replies)

SpecValidate == InitValidate /\ [][NextValidate]_vars

\* ------------------------------------------------------------------------
\* SpecBench: getBenchmarkAnalysis applied to one company
\* ------------------------------------------------------------------------
BenchTickers == {"TRV", "PGR", "XYZ"}
PremiumVolumes == {Absent, <<Num(0)>>, <<Num(-5)>>, <<Num(500)>>, <<Num(999)>>,
                   <<Num(1000)>>, <<Num(5000)>>, <<Rat(19999, 2)>>, <<Num(10000)>>,
                   <<Num(20000)>>}
BenchMetrics ==
    {[combinedRatio |-> cr, roe |-> ro, lossRatio |-> lr] :
        cr \in {Absent, <<Num(80)>>, <<Num(92)>>, <<Num(95)>>, <<Num(103)>>, <<Num(150)>>},
        ro \in {Absent, <<Num(30)>>, <<Num(10)>>, <<Num(-10)>>},
        lr \in {Absent, <<Num(50)>>, <<Num(70)>>, <<Num(120)>>}}

InitBench ==
    /\ now = 0
    /\ ticks = 0
    /\ localStorage = [k \in Keys |-> NoEntry]
    /\ pendingRequests = [k \in Keys |-> NoPromise]
    /\ promises = [p \in Pids |-> Unused]
    /\ calls = << >>
    /\ cache = EmptyCache
    /\ last = NoOp
    /\ input = NoInput
    /\ rand = 0
    /\ metrics = NoMetrics
    /\ request = NoRequest
    /\ run = NoRun
    /\ benchInput = NoBenchInput
    /\ analysis = NoAnalysis
    /\ ranks = NoRanks
    /\ batch = NoBatch
    /\ hook = NoHook
    /\ dash = NoDash
    /\ storage = NoStorage
    /\ fetched = NoFetched

Analyze(ticker, current, premiumVolume) ==
    /\ analysis = NoAnalysis
    /\ benchInput' = [ticker |-> ticker, metrics |-> <<current>>,
                      premiumVolume |-> premiumVolume]
    /\ analysis' = GetBenchmarkAnalysis(ticker, current, premiumVolume)
    /\ UNCHANGED <<now, ticks, fetchVars, cacheVars, calcVars, validateVars, ranks, appVars>>

NextBench ==
    \E ticker \in BenchTickers, current \in BenchMetrics, premiumVolume \in PremiumVolumes :
        Analyze(ticker, current, premiumVolume)

SpecBench == InitBench /\ [][NextBench]_vars

\* ------------------------------------------------------------------------
\* SpecRank: calculateIndustryPercentile applied to one value of one metric
\* for the three size classes
\* ------------------------------------------------------------------------
Sizes == {"large", "medium", "small"}
\* the values lo, lo + 1/2, ..., hi
Halves(lo, hi) == {Rat(k, 2) : k \in (2 * lo)..(2 * hi)}
RankValues(metric) == IF metric = "roe" THEN Halves(-8, 28) ELSE Halves(50, 135)

Rank(metric, value) ==
    /\ ranks = NoRanks
    /\ ranks' = [computed |-> TRUE, metric |-> metric, value |-> value,
                 percentile |-> [size \in Sizes |->
                                    CalculateIndustryPercentile(metric, <<value>>, size)]]
    /\ UNCHANGED <<now, ticks, fetchVars, cacheVars, calcVars, validateVars,
                   benchInput, analysis, appVars>>

NextRank ==
    \E metric \in DOMAIN INDUSTRY_BENCHMARKS_2024 : \E value \in RankValues(metric) :
        Rank(metric, value)

SpecRank == InitBench /\ [][NextRank]_vars

\* ------------------------------------------------------------------------
\* Request deduplication and the localStorage cache (Spec)
\* ------------------------------------------------------------------------
FinancialCalls == {i \in DOMAIN calls : calls[i].key[1] = "financials"}

\* C1: for every cache key at most one upstream request is in flight at any
\* instant, and a call that finds no valid cache entry while a request for
\* its key is in flight joins that request instead of starting another.
C1_SingleFlight ==
    /\ \A k \in Keys : Cardinality(InFlight(k)) <= 1
    /\ \A i \in DOMAIN calls :
          (calls[i].seen # {} /\ calls[i].src # "cache") => calls[i].src = "joined"

C1_Witness ==
    \E i \in FinancialCalls :
        /\ calls[i].src = "joined"
        /\ calls[i].got = <<"pending", 0>>
        /\ InFlight(calls[i].key) = {calls[i].pid}

\* C2: once the producer of a request has completed, with a value or with
\* an error, its key is no longer registered in pendingRequests, and a later
\* call is never handed a promise that had already settled when it called.
C2_DeregisteredOnCompletion ==
    /\ \A k \in Keys :
          PendingHas(pendingRequests, k) =>
              promises[PendingGet(pendingRequests, k)].stage \notin Settled
    /\ \A i \in DOMAIN calls :
          calls[i].src = "joined" => calls[i].pid \in calls[i].seen

\* C3: callers of fetchCompanyFinancials that call while one request for the
\* ticker is in flight hold that same promise and observe the same outcome,
\* and that promise has exactly one producer, started by one call.
C3_SharedOutcome ==
    \A i \in FinancialCalls : \A j \in FinancialCalls :
        (calls[i].src # "cache" /\ calls[j].src # "cache" /\ calls[i].pid \in calls[j].seen) =>
            /\ calls[j].pid = calls[i].pid
            /\ calls[j].got = calls[i].got
            /\ calls[j].got = Outcome(calls[i].pid)
            /\ Cardinality({c \in DOMAIN calls :
                   calls[c].pid = calls[i].pid /\ calls[c].src = "started"}) = 1

C3_Witness ==
    \E i \in FinancialCalls : \E j \in FinancialCalls :
        /\ calls[i].src = "started"
        /\ calls[j].src = "joined"
        /\ calls[j].pid = calls[i].pid
        /\ calls[i].got = <<"error", calls[i].pid>>
        /\ calls[j].got = <<"error", calls[i].pid>>

\* C5: fetchCompanyFinancials answers from the cache only with the result a
\* successful fetch of that ticker wrote less than CACHE_DURATION earlier; a
\* lookup that meets an entry aged CACHE_DURATION or more removes it and the
\* call starts or joins an upstream request.
C5_Step ==
    Len(calls') = Len(calls) + 1 =>
        LET c == calls'[Len(calls')]
            e == localStorage[c.key]
        IN c.key[1] = "financials" =>
            /\ c.src = "cache" =>
                  \E p \in Pids :
                      /\ promises[p].stage = "fulfilled"
                      /\ promises[p].key = c.key
                      /\ c.got = <<"value", p>>
                      /\ now - promises[p].at >= 0
                      /\ now - promises[p].at < CACHE_DURATION
            /\ (e # NoEntry /\ now - e.timestamp >= CACHE_DURATION) =>
                  /\ c.src \in {"started", "joined"}
                  /\ localStorage'[c.key] = NoEntry

C5_FreshCacheOnly == [][C5_Step]_vars

C5_Witness ==
    \E i \in FinancialCalls : \E j \in FinancialCalls :
        /\ i < j
        /\ calls[i].src = "cache"
        /\ calls[j].src = "started"
        /\ localStorage[calls[j].key] = NoEntry
        /\ now - promises[calls[i].data].at >= CACHE_DURATION

\* ------------------------------------------------------------------------
\* cacheUtils (SpecCache)
\* ------------------------------------------------------------------------
\* C4 as claimed: get returns the stored value only while now < expiry, and
\* from now = expiry on deletes the entry and returns null.
C4_StrictStep ==
    last'.op = "get" =>
        LET key == last'.key
            e == cache[key]
        IN IF e = NoItem THEN last'.result = Null /\ cache' = cache
           ELSE IF now < e.expiry THEN last'.result = e.value /\ cache' = cache
           ELSE last'.result = Null /\ cache'[key] = NoItem

C4_ExpiresAtExpiry == [][C4_StrictStep]_vars

\* C4: get on a key that was never set returns null; on an entry it returns
\* the stored value and keeps the entry while now <= expiry, and deletes the
\* entry and returns null once now > expiry; no other entry changes.
C4_Step ==
    last'.op = "get" =>
        LET key == last'.key
            e == cache[key]
        IN /\ \A k \in MemKeys \ {key} : cache'[k] = cache[k]
           /\ IF e = NoItem THEN last'.result = Null /\ cache'[key] = NoItem
              ELSE IF now <= e.expiry THEN last'.result = e.value /\ cache'[key] = e
              ELSE last'.result = Null /\ cache'[key] = NoItem

C4_ExpiresAfterExpiry == [][C4_Step]_vars

C4_Witness ==
    /\ last.op = "get"
    /\ cache[last.key] # NoItem
    /\ cache[last.key].expiry = now
    /\ last.result = cache[last.key].value
    /\ ticks > 0

\* C6: set stores {value, now + ttl} under the key; it deletes another entry
\* only when the Map then holds more than MAX_ENTRIES entries and that
\* entry's expiry lies before now, in which case every such entry goes and
\* every other entry stays as it was.
C6_Step ==
    last'.op = "set" =>
        LET key == last'.key
            size == Cardinality({k \in MemKeys : cache[k] # NoItem} \cup {key})
            passed(k) == cache[k] # NoItem /\ cache[k].expiry < now
        IN /\ cache'[key] = [value |-> last'.arg[1], expiry |-> now + last'.arg[2]]
           /\ IF size > MAX_ENTRIES
              THEN \A k \in MemKeys \ {key} :
                      cache'[k] = IF passed(k) THEN NoItem ELSE cache[k]
              ELSE \A k \in MemKeys \ {key} : cache'[k] = cache[k]

C6_SetKeepsUnexpired == [][C6_Step]_vars

C6_Witness ==
    /\ last.op = "set"
    /\ cache[last.key] # NoItem
    /\ cache[3] = NoItem
    /\ cache[2] # NoItem
    /\ MemSize(cache) > 1

\* ------------------------------------------------------------------------
\* calculateInsuranceMetrics (SpecCalc)
\* ------------------------------------------------------------------------
\* C7: in every returned record the rounded combinedRatio equals the sum of
\* the rounded lossRatio and expenseRatio, rounded to one decimal.
C7_CombinedIsSum ==
    metrics.computed =>
        metrics.combinedRatio = Round1(Plus(metrics.lossRatio, metrics.expenseRatio))

\* C8: in every returned record the rounded underwritingProfitMargin equals
\* 100 minus the rounded combinedRatio, rounded to one decimal.
C8_MarginIsComplement ==
    metrics.computed =>
        metrics.underwritingProfitMargin = Round1(Minus(Num(100), metrics.combinedRatio))

\* C9: the returned expenseRatio lies in [15, 35] for every record.
C9_ExpenseRatioBand ==
    metrics.computed =>
        /\ LessEq(Num(15), metrics.expenseRatio)
        /\ LessEq(metrics.expenseRatio, Num(35))

C9_Witness ==
    /\ metrics.computed
    /\ input.revenue = <<2000>>
    /\ input.operatingExpenses = <<5000>>
    /\ metrics.expenseRatio = Num(35)

\* C10: the returned lossRatio is at least 50 for every record.
C10_LossRatioFloor ==
    metrics.computed => LessEq(Num(50), metrics.lossRatio)

C10_Witness ==
    /\ metrics.computed
    /\ input.symbol = "CB"
    /\ rand = 0
    /\ metrics.expenseRatio = Num(35)
    /\ metrics.lossRatio = Num(53)

\* the numeric fields of the returned record
MetricFields ==
    {"revenue", "netIncome", "totalAssets", "totalEquity", "sharesOutstanding",
     "profitMargin", "roe", "roa", "bookValuePerShare", "tangibleBookValue",
     "debtToEquity", "expenseRatio", "lossRatio", "combinedRatio",
     "underwritingProfitMargin", "investmentYield", "floatPerShare",
     "reserveRatio"}

\* C11: for every record, also one whose revenue, equity, assets or share
\* count is absent or 0, the share count used as a divisor is not 0 and no
\* numeric field of the returned record is NaN or infinite.
C11_NoNaNOrInfinity ==
    metrics.computed =>
        /\ metrics.sharesOutstanding # Num(0)
        /\ \A f \in MetricFields : IsFinite(metrics[f])

\* the band of the record: the ticker's, otherwise the profitability tier's
C12_Band ==
    LET revenue == Default(input.revenue, Num(0))
        netIncome == Default(input.netIncome, Num(0))
        profitMargin == IF Greater(revenue, Num(0))
                        THEN Times(Divide(netIncome, revenue), Num(100)) ELSE Num(0)
    IN IF input.symbol = "PGR" THEN <<92, 98>>
       ELSE IF input.symbol = "TRV" THEN <<95, 101>>
       ELSE IF input.symbol = "ALL" THEN <<96, 104>>
       ELSE IF input.symbol = "CB" THEN <<88, 95>>
       ELSE IF input.symbol = "AIG" THEN <<98, 106>>
       ELSE IF Greater(profitMargin, Num(10)) THEN <<90, 98>>
       ELSE IF Greater(profitMargin, Num(5)) THEN <<95, 103>>
       ELSE IF Greater(profitMargin, Num(0)) THEN <<98, 108>>
       ELSE <<105, 120>>

\* C12: the returned combinedRatio lies within the band selected for the
\* record (the ticker's band, otherwise the profitability tier's), hence
\* within [80, 120], below 100 for PGR and below 98 for CB.
C12_CombinedRatioInBand ==
    metrics.computed =>
        /\ LessEq(Num(C12_Band[1]), metrics.combinedRatio)
        /\ LessEq(metrics.combinedRatio, Num(C12_Band[2]))
        /\ LessEq(Num(80), metrics.combinedRatio)
        /\ LessEq(metrics.combinedRatio, Num(120))
        /\ input.symbol = "PGR" => Less(metrics.combinedRatio, Num(100))
        /\ input.symbol = "CB" => Less(metrics.combinedRatio, Num(98))

C12_Witness ==
    /\ metrics.computed
    /\ input.symbol = "PGR"
    /\ input.revenue = <<2000>>
    /\ input.netIncome = <<-100>>
    /\ input.operatingExpenses = <<5000>>
    /\ rand = RandDen - 1
    /\ Less(Num(97), metrics.combinedRatio)

\* C13 as claimed: the returned lossRatio is at most 90 for every record.
C13_LossRatioAtMost90 ==
    metrics.computed => LessEq(metrics.lossRatio, Num(90))

\* C13: the returned lossRatio is at most the upper end of the record's
\* band minus the expense floor of 15: at most 105 for every record, and at
\* most 90 whenever the band ends at 105 or below.
C13_LossRatioCeiling ==
    metrics.computed =>
        /\ LessEq(metrics.lossRatio, Num(C12_Band[2] - 15))
        /\ LessEq(metrics.lossRatio, Num(105))
        /\ C12_Band[2] <= 105 => LessEq(metrics.lossRatio, Num(90))

C13_Witness ==
    /\ metrics.computed
    /\ input.symbol = "XYZ"
    /\ input.netIncome = <<-100>>
    /\ metrics.expenseRatio = Num(15)
    /\ Less(Num(100), metrics.lossRatio)

\* C14: investmentYield is computed from the reported investmentIncome
\* whenever the field is present, a reported 0 included, from netIncome * 0.3
\* only when it is absent, and is 2.5 when totalAssets is not positive.
C14_YieldFromReportedIncome ==
    metrics.computed =>
        LET netIncome == Default(input.netIncome, Num(0))
            totalAssets == Default(input.totalAssets, Num(0))
            income == IF input.investmentIncome # Absent
                      THEN Num(input.investmentIncome[1])
                      ELSE Times(netIncome, Rat(3, 10))
        IN metrics.investmentYield =
               IF Greater(totalAssets, Num(0))
               THEN Round1(Times(Divide(income, totalAssets), Num(100)))
               ELSE Rat(25, 10)

\* ------------------------------------------------------------------------
\* validateCompanyData (SpecValidate)
\* ------------------------------------------------------------------------
Returned == run.pc = "returned"
WarningTypes == {run.report.warnings[i].type : i \in DOMAIN run.report.warnings}

\* C15: in every returned report overallScore is an integer in [0, 100].
C15_ScoreInRange ==
    Returned => run.report.overallScore \in 0..100

\* every step of a call moves it towards its return, whatever was replied
C16_Step ==
    run'.pc \in CASE run.pc = "idle" -> {"awaitSEC", "returned"}
                  [] run.pc = "awaitSEC" -> {"awaitFRED"}
                  [] run.pc = "awaitFRED" -> {"returned"}
                  [] OTHER -> {run.pc}

\* C16: validateCompanyData never rejects: whatever the input and whatever
\* the lookups reply, each step takes the call on towards the return of a
\* report; when it failed internally the returned report has dataQuality
\* 'error' and a validation_error warning.
C16_NeverRejects ==
    /\ [](/\ run.pc # "rejected"
          /\ Returned => run.report.ticker = request.ticker
          /\ run.failed => /\ Returned
                           /\ run.report.dataQuality = "error"
                           /\ "validation_error" \in WarningTypes)
    /\ [][C16_Step]_vars

C16_Witness ==
    /\ Returned
    /\ run.failed
    /\ request.financialData = Absent
    /\ run.report.dataQuality = "error"

SecSources == {i \in DOMAIN run.report.sources : run.report.sources[i].name = "SEC EDGAR"}
SecWarnings ==
    {i \in DOMAIN run.report.warnings :
        run.report.warnings[i].type \in {"sec_validation", "sec_error"}}
RECURSIVE SumScores(_, _)
SumScores(validations, i) ==
    IF i > Len(validations) THEN 0
    ELSE ScoreOf(validations[i].rating) + SumScores(validations, i + 1)

\* C17: with metrics present the report records the regulatory lookup
\* exactly once: a success as the source 'SEC EDGAR' with status verified
\* and 10 added to the score total, a failure (no CIK, HTTP or network
\* error) as a warning that carries the reason, with nothing added; the
\* failure does not leave validateCompanyData.
C17_SecRecordedOnce ==
    (run.pc \in {"awaitFRED", "returned"} /\ ~run.failed) =>
        /\ Cardinality(SecSources) + Cardinality(SecWarnings) = 1
        /\ run.sec \in {"api", "cache", "no_cik", "http_error", "network_error"}
        /\ run.sec \in {"api", "cache"} =>
              /\ \E i \in SecSources : run.report.sources[i].status = "verified"
              /\ run.totalScore = SumScores(run.report.validations, 1) + 10
        /\ run.sec \in {"no_cik", "http_error", "network_error"} =>
              /\ \E i \in SecWarnings :
                    run.report.warnings[i].message =
                        IF run.sec = "no_cik" THEN "CIK not found" ELSE run.sec
              /\ run.totalScore = SumScores(run.report.validations, 1)

C17_Witness ==
    /\ Returned
    /\ ~run.failed
    /\ run.sec = "http_error"
    /\ run.validMetricsCount = 4
    /\ SecWarnings # {}

\* C18: when the indicator requests fail (HTTP status or network), the
\* returned report carries a warning for the macroeconomic lookup.
C18_EconomicFailureWarned ==
    (Returned /\ ~run.failed /\ run.fred \in {"http_error", "network_error"}) =>
        "economic_data" \in WarningTypes

\* C19: in a report returned without internal failure dataQuality follows
\* from overallScore alone (excellent from 85, good from 70, fair from 50,
\* poor below), and no returned report has dataQuality 'unknown'.
C19_QualityFollowsScore ==
    Returned =>
        LET score == run.report.overallScore
            quality == run.report.dataQuality
        IN /\ quality # "unknown"
           /\ ~run.failed =>
                 /\ quality \in {"excellent", "good", "fair", "poor"}
                 /\ quality = "excellent" <=> score >= 85
                 /\ quality = "good" <=> (70 <= score /\ score < 85)
                 /\ quality = "fair" <=> (50 <= score /\ score < 70)
                 /\ quality = "poor" <=> score < 50

C19_Witness ==
    /\ Returned
    /\ ~run.failed
    /\ run.report.overallScore = 70
    /\ run.report.dataQuality = "good"

\* ------------------------------------------------------------------------
\* getBenchmarkAnalysis (SpecBench)
\* ------------------------------------------------------------------------
\* the bands of the metric for the size class of the analysis
C20_Bands(m) == INDUSTRY_BENCHMARKS_2024[m][analysis.companySize]
C20_Outside(m, value) == \A i \in DOMAIN BenchRatings : ~InRange(value, C20_Bands(m)[BenchRatings[i]])

\* C20: for combinedRatio and size class large the classifier rates a value
\* in the excellent band as excellent, rates 103 as the middle tier or
\* lower, and rates a value beyond the critical band as critical or outlier
\* with percentile 5; for every metric a value outside every band gets
\* percentile 95 beyond the excellent band on the good side and 5 beyond
\* the critical band on the bad side.
C20_SizeBasedRating ==
    analysis.computed =>
        /\ (analysis.companySize = "large" /\ analysis.metrics.combinedRatio # Absent) =>
              LET entry == analysis.metrics.combinedRatio[1]
              IN /\ InRange(entry.value, C20_Bands("combinedRatio").excellent) =>
                        entry.rating = "excellent"
                 /\ entry.value = Num(103) =>
                        entry.rating \in {"fair", "average", "poor", "critical"}
                 /\ Greater(entry.value, Num(C20_Bands("combinedRatio").critical.max)) =>
                        /\ entry.rating \in {"critical", "outlier"}
                        /\ entry.percentile = 5
        /\ \A m \in DOMAIN analysis.metrics :
              analysis.metrics[m] # Absent =>
                  LET entry == analysis.metrics[m][1]
                      good == IF m \in LowerIsBetter
                              THEN Less(entry.value, Num(C20_Bands(m).excellent.min))
                              ELSE Greater(entry.value, Num(C20_Bands(m).excellent.max))
                      bad == IF m \in LowerIsBetter
                             THEN Greater(entry.value, Num(C20_Bands(m).critical.max))
                             ELSE Less(entry.value, Num(C20_Bands(m).critical.min))
                  IN C20_Outside(m, entry.value) =>
                         /\ good => entry.percentile = 95
                         /\ bad => entry.percentile = 5

\* C21: getCompanySize maps every numeric premium volume v to 'large' when
\* v >= 10000, to 'medium' when 1000 <= v < 10000 and to 'small' when
\* v < 1000; only an input that is no number gives the default 'medium'.
C21_SizeByVolume ==
    analysis.computed =>
        /\ benchInput.premiumVolume = Absent => analysis.companySize = "medium"
        /\ (benchInput.premiumVolume # Absent /\ IsFinite(benchInput.premiumVolume[1])) =>
              LET v == benchInput.premiumVolume[1]
              IN analysis.companySize =
                     IF LessEq(Num(10000), v) THEN "large"
                     ELSE IF LessEq(Num(1000), v) THEN "medium"
                     ELSE "small"

\* C22: for every value of combinedRatio, lossRatio or roe the percentile
\* for size class small is at least the one for medium, which is at least
\* the one for large.
C22_LooserForSmaller ==
    ranks.computed =>
        /\ ranks.percentile["small"] >= ranks.percentile["medium"]
        /\ ranks.percentile["medium"] >= ranks.percentile["large"]

C22_Witness ==
    /\ ranks.computed
    /\ ranks.metric = "combinedRatio"
    /\ ranks.value = Num(96)
    /\ ranks.percentile["large"] = 75
    /\ ranks.percentile["medium"] = 90

\* ------------------------------------------------------------------------
\* Specification of fetchMultipleCompanyFinancials
\* ------------------------------------------------------------------------
\* what the upstream request of one ticker settles with
FetchCauses == {"Failed to fetch financial data", "No financial data available"}

\* fetchMultipleCompanyFinancials(tickers): every fetchCompanyFinancials call
\* is made in the map; a ticker held in the cache resolves at once, a
\* repeated ticker joins the request already pending for it
FetchMultiple(tickers, cached) ==
    LET fetches == [t \in BatchTickers |->
                       IF t \notin Requested(tickers) THEN <<"idle">>
                       ELSE IF t \in cached THEN <<"value", FetchResult(t, "cache")>>
                       ELSE <<"pending">>]
    IN
    /\ batch.result = <<"idle">>
    /\ batch' = [tickers |-> tickers, fetches |-> fetches, order |-> << >>,
                 result |-> AwaitAll(Slots(tickers, fetches))]
    /\ UNCHANGED <<now, ticks, fetchVars, cacheVars, calcVars, validateVars, benchVars,
                   hook, dash, storage, fetched>>

\* the request of one ticker settles; the handlers chained on it run, and
\* the batch settles unless it already has
BatchSettles(ticker, outcome) ==
    LET fetches == [batch.fetches EXCEPT ![ticker] = outcome]
    IN
    /\ batch.fetches[ticker] = <<"pending">>
    /\ batch' = [batch EXCEPT
                    !.fetches = fetches,
                    !.order = Append(@, ticker),
                    !.result = IF @ = <<"pending">>
                               THEN AwaitAll(Slots(batch.tickers, fetches)) ELSE @]
    /\ UNCHANGED <<now, ticks, fetchVars, cacheVars, calcVars, validateVars, benchVars,
                   hook, dash, storage, fetched>>

NextBatch ==
    \/ \E tickers \in TickerLists : \E cached \in SUBSET Requested(tickers) :
          FetchMultiple(tickers, cached)
    \/ \E ticker \in BatchTickers :
          \/ BatchSettles(ticker, <<"value", FetchResult(ticker, "api")>>)
          \/ \E cause \in FetchCauses :
                BatchSettles(ticker, <<"error", FailureMessage(ticker, cause)>>)

SpecBatch == Init /\ [][NextBatch]_vars

\* C23: fetchMultipleCompanyFinancials never rejects; it resolves exactly when
\* every requested ticker's fetch has settled, to an array with one element
\* per requested ticker in request order: {ticker, error: message} for a
\* ticker whose fetch failed and the fetch's own result for every other one,
\* whatever the order in which the fetches settled.
C23_OneEntryPerTicker ==
    /\ batch.result[1] # "error"
    /\ batch.result[1] = "value" <=>
          /\ batch.result # <<"idle">>
          /\ \A t \in Requested(batch.tickers) : batch.fetches[t][1] \in {"value", "error"}
    /\ batch.result[1] = "value" =>
          /\ Len(batch.result[2]) = Len(batch.tickers)
          /\ \A i \in DOMAIN batch.tickers :
                LET t == batch.tickers[i]
                    entry == batch.result[2][i]
                IN IF batch.fetches[t][1] = "error"
                   THEN /\ entry.ticker = t
                        /\ entry.error = <<batch.fetches[t][2]>>
                   ELSE /\ entry = batch.fetches[t][2]
                        /\ entry.ticker = t
                        /\ entry.error = Absent

\* the batch of three whose middle ticker failed, settled last to first
C23_Witness ==
    /\ batch.tickers = <<"TRV", "ZZZZ_INVALID", "PGR">>
    /\ batch.order = <<"PGR", "ZZZZ_INVALID", "TRV">>
    /\ batch.result[1] = "value"
    /\ batch.fetches["ZZZZ_INVALID"][1] = "error"
    /\ batch.fetches["TRV"][1] = "value"
    /\ batch.fetches["PGR"][1] = "value"

\* C24: when the upstream answers with a failed HTTP status, an empty
\* statement list, a missing or non-positive revenue, or a latest statement
\* without calendarYear or period, the fetchCompanyFinancials promise rejects
\* with an error naming its ticker and the step writes nothing to the cache;
\* whatever the cache holds or serves was stored by a request that succeeded.
C24_Failures == {"http", "empty", "revenue", "period"}
C24_Step ==
    \A pid \in Pids :
        (/\ promises[pid].key[1] = "financials"
         /\ promises[pid].stage \in InFlightStages
         /\ promises'[pid].stage # promises[pid].stage
         /\ promises'[pid].err \in C24_Failures)
        => /\ promises'[pid].stage = "rejected"
           /\ calls' = Deliver(calls, pid, <<"error", pid>>)
           /\ RejectionMessage(pid)'[2] = promises[pid].key[2]
           /\ localStorage' = localStorage
C24_FailureNeverCached ==
    /\ [](/\ \A k \in Keys : localStorage[k] # NoEntry =>
                promises[localStorage[k].data].stage = "fulfilled"
          /\ \A i \in DOMAIN calls : calls[i].src = "cache" =>
                promises[calls[i].data].stage = "fulfilled")
    /\ [][C24_Step]_vars

\* a request of TRV failed one of the four ways, and the next call for TRV
\* found nothing cached and went upstream again
C24_Witness ==
    \E i, j \in DOMAIN calls :
        /\ i < j
        /\ calls[i].key = CacheKey("financials", "TRV")
        /\ calls[i].src = "started"
        /\ promises[calls[i].pid].stage = "rejected"
        /\ promises[calls[i].pid].err \in C24_Failures
        /\ calls[j].key = calls[i].key
        /\ calls[j].src = "started"
        /\ calls[j].pid # calls[i].pid

\* ------------------------------------------------------------------------
\* Specification of the useAIInsights hook
\* ------------------------------------------------------------------------
\* the first render with its props, and the effect that follows it
Mount(current, market, autoLoad) ==
    /\ ~hook.mounted
    /\ hook' = AutoLoadEffect([NoHook EXCEPT !.mounted = TRUE, !.ticker = "TRV",
                                  !.metrics = current, !.marketData = market,
                                  !.autoLoad = autoLoad])
    /\ UNCHANGED <<now, ticks, fetchVars, cacheVars, calcVars, validateVars, benchVars,
                   batch, dash, storage, fetched>>

\* a render with other metrics or marketData: the effect's dependencies
\* changed, so it runs again
Rerender(current, market) ==
    /\ hook.mounted
    /\ <<current, market>> # <<hook.metrics, hook.marketData>>
    /\ Cardinality(StartedLoads(hook)) < MaxLoads
    /\ hook' = AutoLoadEffect([hook EXCEPT !.metrics = current, !.marketData = market])
    /\ UNCHANGED <<now, ticks, fetchVars, cacheVars, calcVars, validateVars, benchVars,
                   batch, dash, storage, fetched>>

\* the component calls loadInsights()
LoadInsights ==
    /\ hook.mounted
    /\ Cardinality(StartedLoads(hook)) < MaxLoads
    /\ hook' = StartLoad(hook)
    /\ UNCHANGED <<now, ticks, fetchVars, cacheVars, calcVars, validateVars, benchVars,
                   batch, dash, storage, fetched>>

\* generateInsightsSummary settles and loadInsights runs to its end
InsightsSettle(id, ok) ==
    /\ hook.loads[id].stage = "pending"
    /\ hook' = FinishLoad(hook, id, ok)
    /\ UNCHANGED <<now, ticks, fetchVars, cacheVars, calcVars, validateVars, benchVars,
                   batch, dash, storage, fetched>>

\* resetInsights()
ResetInsights ==
    /\ hook.mounted
    /\ hook' = [hook EXCEPT !.insights = Absent, !.error = Absent, !.loading = FALSE,
                            !.reset = TRUE]
    /\ UNCHANGED <<now, ticks, fetchVars, cacheVars, calcVars, validateVars, benchVars,
                   batch, dash, storage, fetched>>

NextHook ==
    \/ \E current \in {"null", "m1", "m2"}, market \in {"null", "d1"}, autoLoad \in BOOLEAN :
          Mount(current, market, autoLoad)
    \/ \E current \in {"null", "m1", "m2"}, market \in {"null", "d1"} : Rerender(current, market)
    \/ LoadInsights
    \/ \E id \in LoadIds, ok \in BOOLEAN : InsightsSettle(id, ok)
    \/ ResetInsights

SpecHook == Init /\ [][NextHook]_vars

\* C25: in useAIInsights, once no generateInsightsSummary call is in flight
\* (and the state was not reset since the last call settled), loading is
\* false and the state shows the outcome of the call that settled last:
\* its result with a null error after a success, a null insights with its
\* message after a failure; and no call was made without metrics and
\* marketData.
C25_SingleOutcome ==
    /\ \A id \in StartedLoads(hook) :
          hook.loads[id].metrics # "null" /\ hook.loads[id].marketData # "null"
    /\ (PendingLoads(hook) = {} /\ hook.settled # 0 /\ ~hook.reset) =>
          /\ hook.loading = FALSE
          /\ IF hook.loads[hook.settled].stage = "resolved"
             THEN hook.insights = <<hook.settled>> /\ hook.error = Absent
             ELSE hook.insights = Absent /\ hook.error = <<InsightsError(hook.settled)>>

\* ------------------------------------------------------------------------
\* Specification of the Dashboard's loads
\* ------------------------------------------------------------------------
\* the first effect: loadCompanyData(selectedTicker)
DashMount ==
    /\ ~dash.mounted
    /\ dash' = LoadCompanyData([dash EXCEPT !.mounted = TRUE], dash.selectedTicker)
    /\ UNCHANGED <<now, ticks, fetchVars, cacheVars, calcVars, validateVars, benchVars,
                   batch, hook, storage, fetched>>

\* handleCompanyChange(ticker): the selector is disabled while loading; the
\* effect runs when selectedTicker changed
SelectCompany(ticker) ==
    /\ dash.mounted
    /\ ~dash.loading
    /\ ticker # dash.selectedTicker
    /\ Cardinality(DashStarted(dash)) < MaxDashLoads
    /\ dash' = LoadCompanyData([dash EXCEPT !.selectedTicker = ticker], ticker)
    /\ UNCHANGED <<now, ticks, fetchVars, cacheVars, calcVars, validateVars, benchVars,
                   batch, hook, storage, fetched>>

\* handleRefresh(): the button is disabled while loading
Refresh ==
    /\ dash.mounted
    /\ ~dash.loading
    /\ Cardinality(DashStarted(dash)) < MaxDashLoads
    /\ dash' = LoadCompanyData(dash, dash.selectedTicker)
    /\ UNCHANGED <<now, ticks, fetchVars, cacheVars, calcVars, validateVars, benchVars,
                   batch, hook, storage, fetched>>

\* Promise.all([fetchCompanyFinancials, fetchMarketData.catch]) settles
DashLoadSettles(id, ok) ==
    /\ dash.loads[id].stage = "fetching"
    /\ dash' = LoadSettled(dash, id, ok)
    /\ UNCHANGED <<now, ticks, fetchVars, cacheVars, calcVars, validateVars, benchVars,
                   batch, hook, storage, fetched>>

\* validateCompanyData settles
DashValidationSettles(id, ok) ==
    /\ dash.loads[id].stage = "validating"
    /\ dash' = ValidationSettled(dash, id, ok)
    /\ UNCHANGED <<now, ticks, fetchVars, cacheVars, calcVars, validateVars, benchVars,
                   batch, hook, storage, fetched>>

NextDash ==
    \/ DashMount
    \/ \E ticker \in DashTickers : SelectCompany(ticker)
    \/ Refresh
    \/ \E id \in DashLoadIds, ok \in BOOLEAN : DashLoadSettles(id, ok)
    \/ \E id \in DashLoadIds, ok \in BOOLEAN : DashValidationSettles(id, ok)

SpecDash == Init /\ [][NextDash]_vars

\* C27: whenever the dashboard holds financial data together with a
\* validation report, the report is the one of the same ticker and of the
\* same load as the data.
C27_ReportOfSameLoad ==
    (dash.dashboardData # Absent /\ dash.dataValidation # Absent) =>
        /\ dash.dataValidation[1].ticker = dash.dashboardData[1].ticker
        /\ dash.dataValidation[1].load = dash.dashboardData[1].load

\* ------------------------------------------------------------------------
\* Specification of cache.set filling localStorage
\* ------------------------------------------------------------------------
\* cache.set(key, data); stored is false when setItem throws in both attempts
StorageSet(key, stored) ==
    /\ storage' \in CacheSet(storage, key, key, now, stored)
    /\ UNCHANGED <<now, ticks, fetchVars, cacheVars, calcVars, validateVars, benchVars,
                   batch, hook, dash, fetched>>

NextStorage ==
    \E key \in SetKeys(storage), stored \in BOOLEAN : StorageSet(key, stored)

SpecStorage == Init /\ [][NextStorage]_vars

\* C26: after any sequence of cache.set calls the number of stored entries
\* with the insurance_dashboard_ prefix is at most MAX_CACHE_SIZE.
C26_AtMostMaxEntries == Cardinality(StoredKeys(storage)) <= MAX_CACHE_SIZE

\* C28: in every validations entry of validateCompanyData the percentile is
\* the one of the entry's rating: excellent 90, good 75, fair 50, poor 25,
\* critical 10, for combinedRatio, lossRatio, expenseRatio and roe alike.
C28_PercentileOf == [excellent |-> 90, good |-> 75, fair |-> 50, poor |-> 25, critical |-> 10]
C28_PercentileAgreesWithRating ==
    \A i \in DOMAIN run.report.validations :
        LET entry == run.report.validations[i]
        IN entry.rating \in DOMAIN C28_PercentileOf =>
              entry.percentile = <<C28_PercentileOf[entry.rating]>>

\* ------------------------------------------------------------------------
\* Specification of the calculator feeding the validation: the Dashboard
\* hands the currentMetrics of fetchCompanyFinancials, computed by
\* calculateInsuranceMetrics, to validateCompanyData
\* ------------------------------------------------------------------------
\* income statements with revenue and a balance sheet
InitPipeline ==
    /\ InitCalc
    /\ input.revenue = <<10000>>
    /\ input.netIncome # Absent
    /\ input.sellingGeneralAndAdministrativeExpenses = Absent
    /\ input.totalAssets # Absent

\* the four core metrics of the calculated record, all of type number
CoreMetricsOf(m) ==
    [combinedRatio |-> <<m.combinedRatio>>, roe |-> <<m.roe>>,
     lossRatio |-> <<m.lossRatio>>, expenseRatio |-> <<m.expenseRatio>>]

\* validateCompanyData(ticker, { currentMetrics: metrics, ... })
ValidateCalculated ==
    /\ metrics # NoMetrics
    /\ Validate(input.symbol, <<[currentMetrics |-> <<CoreMetricsOf(metrics)>>]>>)

NextPipeline ==
    \/ Calculate
    \/ ValidateCalculated
    \/ \E reply \in SecReplies \cup {"none"} : SecSettles(reply)
    \/ \E replies \in FredReplies \cup {NoReplies} : FredSettles(replies)

SpecPipeline == InitPipeline /\ [][NextPipeline]_vars

\* C29: when a record produced by calculateInsuranceMetrics is validated by
\* validateCompanyData, its combinedRatio, lossRatio and expenseRatio are
\* each rated excellent, good, fair, poor or critical, never 'outlier'.
C29_RatiosWithinBands ==
    \A i \in DOMAIN run.report.validations :
        LET entry == run.report.validations[i]
        IN entry.metric \in {"combinedRatio", "lossRatio", "expenseRatio"} =>
              entry.rating \in {"excellent", "good", "fair", "poor", "critical"}

\* ------------------------------------------------------------------------
\* Specification of the result fetchCompanyFinancials builds
\* ------------------------------------------------------------------------
\* the values Math.random() takes in the calls of one result
RandSamples == {0, RandDen \div 2, RandDen - 1}

\* the upstream returned periods income statements and sheets balance
\* sheets, and every check passed
Build(ticker, periods, sheets, draws) ==
    /\ fetched = NoFetched
    /\ fetched' = BuildResult(ticker,
                              [i \in 1..periods |-> IncomeStatement(ticker, i)],
                              [i \in 1..sheets |-> BalanceSheet(i)], draws)
    /\ UNCHANGED <<now, ticks, fetchVars, cacheVars, calcVars, validateVars, benchVars,
                   batch, hook, dash, storage>>

NextHistory ==
    \E ticker \in {"TRV", "XYZ"}, periods \in 1..MaxPeriods, draws \in [1..5 -> RandSamples] :
        \E sheets \in {1, periods} : Build(ticker, periods, sheets, draws)

SpecHistory == Init /\ [][NextHistory]_vars

\* C30: in every result of fetchCompanyFinancials historicalMetrics holds at
\* most 4 periods, ordered oldest to newest, and its last entry carries the
\* same metric values as currentMetrics.
C30_HistoryEndsWithCurrent ==
    fetched.computed =>
        LET history == fetched.historicalMetrics
        IN /\ Len(history) <= 4
           /\ Len(history) >= 1
           /\ \A i \in 1..(Len(history) - 1) : history[i].year[1] < history[i + 1].year[1]
           /\ history[Len(history)] = fetched.currentMetrics
====
